---- MODULE Spec2Model ----
(***************************************************************************)
(* SkyStrike (src/skystrike.py): the per-frame simulation core, its input  *)
(* callbacks and the mission catalog, as a state machine.                  *)
(*                                                                         *)
(* Units.  Python floats are modelled in fixed point:                      *)
(*   time       integer milliseconds (3.0 s is 3000),                      *)
(*   positions  integer world units,                                       *)
(*   directions unit vectors scaled by 1000,                               *)
(*   the difficulty multiplier scaled by 1000 (1.0 is 1000),               *)
(*   angles     integer degrees.                                           *)
(* Proximity tests compare squared distances, which is exact on integers.  *)
(***************************************************************************)
EXTENDS Integers, Sequences, FiniteSets, TLC

VARIABLES
    game,       \* the SkyStrike instance (every field the simulation reads)
    missions,   \* the mutable flags of the MISSIONS catalog
    ev,         \* history: what the last handler did (read by properties only)
    hist,       \* history kept across handlers (read by properties only)
    calls       \* history: handler calls so far (read by bounds and fairness only)

vars == <<game, missions, ev, hist, calls>>

(***************************************************************************)
(* Program constants                                                       *)
(***************************************************************************)
WORLD_SIZE == 500
WORLD_HEIGHT_MIN == 0
WORLD_HEIGHT_MAX == 400
PLAYER_SPEED == 80
PLAYER_TURN_SPEED == 2
PLAYER_MAX_HEALTH == 100
PLAYER_MACHINE_GUN_COOLDOWN == 80
PLAYER_MISSILE_COOLDOWN == 1500
ENEMY_SPAWN_INTERVAL == 3000
MAX_ENEMIES == 15
DIFFICULTY_SCALE_RATE == 50
COMBO_WINDOW == 3000
BODY_DAMAGE == 30
PROJECTILE_MAX_LIFETIME == 5000
EXPLOSION_MAX_AGE == 1000
ENEMY_PROJECTILE_SPEED == 100

\* GameState
MENU == "MENU"
MISSION_SELECT == "MISSION_SELECT"
MISSION_BRIEFING == "MISSION_BRIEFING"
PLAYING == "PLAYING"
PAUSED == "PAUSED"
MISSION_COMPLETE == "MISSION_COMPLETE"
MISSION_FAILED == "MISSION_FAILED"
GAME_OVER == "GAME_OVER"
GameState ==
    {MENU, MISSION_SELECT, MISSION_BRIEFING, PLAYING, PAUSED,
     MISSION_COMPLETE, MISSION_FAILED, GAME_OVER}

\* MissionType
ELIMINATION == "ELIMINATION"
SURVIVAL == "SURVIVAL"
ESCORT == "ESCORT"
DEFENSE == "DEFENSE"
BOSS == "BOSS"

\* EnemyState
PATROL == "PATROL"
CHASE == "CHASE"
ATTACK == "ATTACK"
EVADE == "EVADE"

EnemyTypes == {"scout", "jet", "bomber"}

\* None, for the fields that hold an object or None
None == [none |-> TRUE]

(***************************************************************************)
(* Integer helpers                                                         *)
(***************************************************************************)
Abs(a) == IF a < 0 THEN -a ELSE a
Max(a, b) == IF a >= b THEN a ELSE b
Min(a, b) == IF a <= b THEN a ELSE b
\* division truncating toward zero (b > 0)
Div(a, b) == IF a >= 0 THEN a \div b ELSE -((-a) \div b)

RECURSIVE SqrtSearch(_, _, _)
SqrtSearch(n, lo, hi) ==
    IF lo >= hi THEN lo
    ELSE LET mid == (lo + hi + 1) \div 2
         IN IF mid * mid <= n THEN SqrtSearch(n, mid, hi)
            ELSE SqrtSearch(n, lo, mid - 1)
\* floor of the square root, 0 <= n < 2^31
ISqrt(n) == SqrtSearch(n, 0, 46340)

\* sin of an angle in degrees, scaled by 1000 (Bhaskara's rational form of
\* math.sin, exact at 0, 30, 90, 150 and 180 degrees)
SinDeg(d) ==
    LET a == d % 360
        h == IF a <= 180 THEN a ELSE a - 180
        p == h * (180 - h)
        s == (4000 * p) \div (40500 - p)
    IN IF a <= 180 THEN s ELSE -s
CosDeg(d) == SinDeg(d + 90)
\* radians, given in thousandths, to whole degrees
RadToDeg(mrad) == (mrad * 180) \div 3142

(***************************************************************************)
(* Vector3                                                                 *)
(***************************************************************************)
Vector3(x, y, z) == [x |-> x, y |-> y, z |-> z]
VAdd(a, b) == Vector3(a.x + b.x, a.y + b.y, a.z + b.z)
VSub(a, b) == Vector3(a.x - b.x, a.y - b.y, a.z - b.z)
\* a * (num / den)
VScale(a, num, den) == Vector3(Div(a.x * num, den), Div(a.y * num, den), Div(a.z * num, den))
LengthSq(a) == a.x * a.x + a.y * a.y + a.z * a.z
\* 16 * length, rounded down
Length16(a) == ISqrt(256 * LengthSq(a))
\* the unit vector scaled by 1000; the zero vector for a zero-length input
Normalize(a) ==
    LET l == Length16(a)
    IN IF l > 0
       THEN Vector3(Div(a.x * 16000, l), Div(a.y * 16000, l), Div(a.z * 16000, l))
       ELSE Vector3(0, 0, 0)
DistanceSq(a, b) == LengthSq(VSub(a, b))
\* a.distance_to(b) < r
Within(a, b, r) == DistanceSq(a, b) < r * r
\* position + direction * speed * dt: direction scaled by 1000, speed in units
\* per second, dt in milliseconds
Advance(pos, dir, speed, dt) ==
    LET step(c) == Div(Div(c * speed, 10) * (dt \div 10), 10000)
    IN Vector3(pos.x + step(dir.x), pos.y + step(dir.y), pos.z + step(dir.z))

(***************************************************************************)
(* Mission catalog.  The static part is MISSIONS; the two flags that       *)
(* change, completed and unlocked, are the variable missions.              *)
(***************************************************************************)
MISSIONS ==
    (0 :> [id |-> 0, type |-> ELIMINATION,
           objectives |-> [target_type |-> "scout", target_count |-> 3]]) @@
    (1 :> [id |-> 1, type |-> SURVIVAL,
           objectives |-> [duration |-> 60000]]) @@
    (2 :> [id |-> 2, type |-> ELIMINATION,
           objectives |-> [target_type |-> "jet", target_count |-> 5]]) @@
    (3 :> [id |-> 3, type |-> ESCORT,
           objectives |-> [escort_health |-> 100, escort_speed |-> 40]]) @@
    (4 :> [id |-> 4, type |-> DEFENSE,
           objectives |-> [max_breaches |-> 3, enemy_waves |-> 10]]) @@
    (5 :> [id |-> 5, type |-> BOSS,
           objectives |-> [boss_health |-> 400, boss_type |-> "jet"]]) @@
    (6 :> [id |-> 6, type |-> ELIMINATION,
           objectives |-> [targets |-> <<[etype |-> "bomber", count |-> 3],
                                         [etype |-> "jet", count |-> 5]>>]])
MissionIds == DOMAIN MISSIONS
LastMissionId == Cardinality(MissionIds) - 1

\* Mission.__init__ over the catalog: nothing completed, mission 0 unlocked
InitMissions ==
    [completed |-> [i \in MissionIds |-> FALSE],
     unlocked  |-> [i \in MissionIds |-> (i = 0)]]

(***************************************************************************)
(* Explosion, FriendlyAircraft, DefenseBase                                *)
(***************************************************************************)
Explosion(position) == [position |-> position, age |-> 0]

\* Explosion.update: the aged explosion; it is kept while age < max_age
ExplosionUpdate(x, dt) == [x EXCEPT !.age = @ + dt]

FriendlyAircraft(start_pos, speed) ==
    [position |-> start_pos, speed |-> speed, health |-> 100, max_health |-> 100,
     alive |-> TRUE, reached_destination |-> FALSE,
     destination |-> Vector3((WORLD_SIZE * 8) \div 10, 100, 0)]

\* variant of FriendlyAircraft.update without the alive test
FriendlyUpdateDead(f, dt) ==
    IF f.reached_destination THEN f
    ELSE LET to_dest == VSub(f.destination, f.position)
         IN IF LengthSq(to_dest) < 10 * 10
            THEN [f EXCEPT !.reached_destination = TRUE]
            ELSE [f EXCEPT !.position = Advance(f.position, Normalize(to_dest), f.speed, dt)]

FriendlyUpdate(f, dt) ==
    IF ~f.alive \/ f.reached_destination THEN f
    ELSE LET to_dest == VSub(f.destination, f.position)
         IN IF LengthSq(to_dest) < 10 * 10
            THEN [f EXCEPT !.reached_destination = TRUE]
            ELSE [f EXCEPT !.position = Advance(f.position, Normalize(to_dest), f.speed, dt)]

FriendlyTakeDamage(f, damage) ==
    LET h == f.health - damage
    IN IF h <= 0 THEN [f EXCEPT !.health = 0, !.alive = FALSE]
       ELSE [f EXCEPT !.health = h]

DefenseBase == [position |-> Vector3(0, 50, 0), breach_radius |-> 100, breaches |-> 0]

check_breach(base, enemy_position) == Within(base.position, enemy_position, base.breach_radius)

(***************************************************************************)
(* Projectile                                                              *)
(***************************************************************************)
Projectile(position, direction, speed, damage, is_missile, owner) ==
    [position |-> position, direction |-> Normalize(direction), speed |-> speed,
     damage |-> damage, is_missile |-> is_missile, owner |-> owner,
     alive |-> TRUE, lifetime |-> 0]

\* variant of the world-bounds test: no projectile ever leaves the world
OutOfWorldNever(p) == FALSE

OutOfWorld(p) ==
    \/ Abs(p.x) > WORLD_SIZE
    \/ Abs(p.z) > WORLD_SIZE
    \/ p.y < 0
    \/ p.y > WORLD_HEIGHT_MAX

\* variant of the scan: the last of the nearest alive enemies on a tie
NearestLast(enemies, pos) ==
    LET alive == {k \in 1..Len(enemies) : enemies[k].alive}
        near == {k \in alive : \A j \in alive :
                    DistanceSq(pos, enemies[k].position)
                       <= DistanceSq(pos, enemies[j].position)}
    IN IF near = {} THEN 0 ELSE CHOOSE k \in near : \A j \in near : j <= k

RECURSIVE NearestFrom(_, _, _, _)
\* the scan of Projectile.update: the alive enemy at the smallest distance,
\* the first one on a tie (dist < min_dist is strict); 0 when there is none
NearestFrom(enemies, pos, i, best) ==
    IF i > Len(enemies) THEN best
    ELSE IF enemies[i].alive
            /\ (best = 0 \/ DistanceSq(pos, enemies[i].position)
                              < DistanceSq(pos, enemies[best].position))
         THEN NearestFrom(enemies, pos, i + 1, i)
         ELSE NearestFrom(enemies, pos, i + 1, best)
Nearest(enemies, pos) == NearestFrom(enemies, pos, 1, 0)

\* variant of the blend: equal weights
HomingBlendEven(direction, to_target) ==
    Normalize(VAdd(VScale(direction, 50, 100), VScale(to_target, 50, 100)))

\* self.direction * 0.85 + to_target * 0.15, normalised
HomingBlend(direction, to_target) ==
    Normalize(VAdd(VScale(direction, 85, 100), VScale(to_target, 15, 100)))

ProjectileUpdate(p, dt, enemies) ==
    LET aged == [p EXCEPT !.lifetime = @ + dt]
    IN IF aged.lifetime > PROJECTILE_MAX_LIFETIME
       THEN [aged EXCEPT !.alive = FALSE]
       ELSE LET n == IF p.is_missile /\ Len(enemies) > 0 /\ p.owner = "player"
                     THEN Nearest(enemies, p.position) ELSE 0
                dir == IF n # 0
                       THEN HomingBlend(p.direction,
                                        Normalize(VSub(enemies[n].position, p.position)))
                       ELSE p.direction
                pos == Advance(p.position, dir, p.speed, dt)
            IN [aged EXCEPT !.direction = dir, !.position = pos,
                            !.alive = IF OutOfWorld(pos) THEN FALSE ELSE @]

(***************************************************************************)
(* Enemy                                                                   *)
(***************************************************************************)
EnemyMaxHealth(t) == CASE t = "scout" -> 30 [] t = "jet" -> 60 [] OTHER -> 100
EnemySpeed(t) == CASE t = "scout" -> 60 [] t = "jet" -> 45 [] OTHER -> 30
EnemySize(t) == CASE t = "scout" -> 8 [] t = "jet" -> 10 [] OTHER -> 15
EnemyFireCooldownMax(t) == CASE t = "scout" -> 2000 [] t = "jet" -> 1000 [] OTHER -> 1500
EnemyDamage(t) == CASE t = "scout" -> 5 [] t = "jet" -> 10 [] OTHER -> 15

\* Enemy.__init__.  position and patrol_target are the constructor's random
\* draws; addr is id(self); uid is history (it names the object in properties
\* and is never read by the program).
Enemy(enemy_type, position, patrol_target, addr, uid) ==
    [type |-> enemy_type, position |-> position, state |-> PATROL, alive |-> TRUE,
     max_health |-> EnemyMaxHealth(enemy_type), speed |-> EnemySpeed(enemy_type),
     size |-> EnemySize(enemy_type),
     fire_cooldown_max |-> EnemyFireCooldownMax(enemy_type),
     damage |-> EnemyDamage(enemy_type),
     health |-> EnemyMaxHealth(enemy_type), fire_cooldown |-> 0,
     patrol_target |-> patrol_target, state_timer |-> 0,
     addr |-> addr, uid |-> uid]

\* variant of the transition rule: no EVADE rule
NextEnemyStateNoEvade(e, player_pos) ==
    IF Within(e.position, player_pos, 100) THEN ATTACK
    ELSE IF Within(e.position, player_pos, 200) THEN CHASE
    ELSE PATROL

\* the state transition of Enemy.update
NextEnemyState(e, player_pos) ==
    IF 10 * e.health < 3 * e.max_health THEN EVADE
    ELSE IF Within(e.position, player_pos, 100) THEN ATTACK
    ELSE IF Within(e.position, player_pos, 200) THEN CHASE
    ELSE PATROL

\* whether this update draws a new patrol target
RepicksPatrol(e, player_pos) ==
    /\ e.alive
    /\ NextEnemyState(e, player_pos) = PATROL
    /\ Within(e.position, e.patrol_target, 20)

\* variant of the world constraint: the position is left as computed
ClampToWorldNone(p) == p

ClampToWorld(p) ==
    Vector3(Max(-WORLD_SIZE, Min(WORLD_SIZE, p.x)),
            Max(WORLD_HEIGHT_MIN + 20, Min(WORLD_HEIGHT_MAX - 20, p.y)),
            Max(-WORLD_SIZE, Min(WORLD_SIZE, p.z)))

\* variant of the firing test: the cooldown is not consulted
FiresInAttack(st, cooldown) == st = ATTACK

\* Enemy.update, "Fire at player": the test on the state after the transition
\* and the cooldown after the decrement
Fires(st, cooldown) == st = ATTACK /\ cooldown = 0

\* Enemy.update for an alive enemy: [enemy, fired, projectile].  new_target is
\* the draw of _new_patrol_target, read only when RepicksPatrol holds.
EnemyUpdate(e, dt, player_pos, difficulty_multiplier, new_target) ==
    LET cooldown == Max(0, e.fire_cooldown - dt)
        timer == e.state_timer + dt
        st == NextEnemyState(e, player_pos)
        patrol == IF st = PATROL /\ Within(e.position, e.patrol_target, 20)
                  THEN new_target ELSE e.patrol_target
        angle == RadToDeg(timer)
        away == Normalize(VSub(e.position, player_pos))
        target_pos ==
            CASE st = PATROL -> patrol
              [] st = CHASE -> player_pos
              [] st = ATTACK ->
                   VAdd(player_pos,
                        Vector3((CosDeg(angle) * 80) \div 1000, 0, (SinDeg(angle) * 80) \div 1000))
              [] OTHER -> VAdd(e.position, VScale(away, 100, 1000))
        direction == Normalize(VSub(target_pos, e.position))
        speed == (e.speed * difficulty_multiplier) \div 1000
        moved == ClampToWorld(Advance(e.position, direction, speed, dt))
        fires == Fires(st, cooldown)
        e1 == [e EXCEPT !.fire_cooldown =
                            IF fires THEN (e.fire_cooldown_max * 1000) \div difficulty_multiplier
                            ELSE cooldown,
                        !.state_timer = timer, !.state = st,
                        !.patrol_target = patrol, !.position = moved]
    IN [enemy |-> e1, fired |-> fires,
        projectile |-> Projectile(moved, VSub(player_pos, moved), ENEMY_PROJECTILE_SPEED,
                                  e.damage, FALSE, "enemy")]

\* variant of Enemy.take_damage: the damage is added to the health
EnemyTakeDamageHeal(e, damage) ==
    LET h == e.health + damage
    IN [e EXCEPT !.health = h, !.alive = IF h <= 0 THEN FALSE ELSE @]

\* Enemy.take_damage
EnemyTakeDamage(e, damage) ==
    LET h == e.health - damage
    IN [e EXCEPT !.health = h, !.alive = IF h <= 0 THEN FALSE ELSE @]

(***************************************************************************)
(* PlayerAircraft.  The class is not among the available sources, so it is *)
(* modelled from the specification (section 4.1): constant forward speed   *)
(* along the heading, yaw and pitch integrated from the input flags,       *)
(* position clamped to the world, cooldowns floored at zero.               *)
(***************************************************************************)
PLAYER_START == Vector3(0, 100, 0)
PLAYER_MISSILES == 10
PLAYER_PITCH_LIMIT == 45
PLAYER_BULLET_SPEED == 200
PLAYER_BULLET_DAMAGE == 10
PLAYER_MISSILE_SPEED == 150
PLAYER_MISSILE_DAMAGE == 50
\* degrees per second
PlayerTurnRate == PLAYER_TURN_SPEED * 45

PlayerAircraft ==
    [position |-> PLAYER_START, rotation |-> 0, pitch |-> 0,
     health |-> PLAYER_MAX_HEALTH, max_health |-> PLAYER_MAX_HEALTH, alive |-> TRUE,
     missiles |-> PLAYER_MISSILES, machine_gun_cooldown |-> 0, missile_cooldown |-> 0,
     input_up |-> FALSE, input_down |-> FALSE, input_left |-> FALSE, input_right |-> FALSE]

get_forward_direction(p) ==
    Vector3((SinDeg(p.rotation) * CosDeg(p.pitch)) \div 1000,
            SinDeg(p.pitch),
            (CosDeg(p.rotation) * CosDeg(p.pitch)) \div 1000)

PlayerUpdate(p, dt) ==
    LET turn == (PlayerTurnRate * dt) \div 1000
        rot == (p.rotation + (IF p.input_left THEN turn ELSE 0)
                           - (IF p.input_right THEN turn ELSE 0)) % 360
        pit == Max(-PLAYER_PITCH_LIMIT, Min(PLAYER_PITCH_LIMIT,
                   p.pitch + (IF p.input_up THEN turn ELSE 0)
                           - (IF p.input_down THEN turn ELSE 0)))
        q == [p EXCEPT !.rotation = rot, !.pitch = pit]
        pos == Advance(p.position, get_forward_direction(q), PLAYER_SPEED, dt)
    IN [q EXCEPT !.position =
                     Vector3(Max(-WORLD_SIZE, Min(WORLD_SIZE, pos.x)),
                             Max(WORLD_HEIGHT_MIN, Min(WORLD_HEIGHT_MAX, pos.y)),
                             Max(-WORLD_SIZE, Min(WORLD_SIZE, pos.z))),
                 !.machine_gun_cooldown = Max(0, @ - dt),
                 !.missile_cooldown = Max(0, @ - dt)]

PlayerTakeDamage(p, damage) ==
    LET h == p.health - damage
    IN IF h <= 0 THEN [p EXCEPT !.health = 0, !.alive = FALSE]
       ELSE [p EXCEPT !.health = h]

\* fire_machine_gun / fire_missile: whether a projectile is produced
CanFireMachineGun(p) == p.machine_gun_cooldown = 0
CanFireMissile(p) == p.missiles > 0 /\ p.missile_cooldown = 0
fire_machine_gun(p) ==
    [player |-> [p EXCEPT !.machine_gun_cooldown = PLAYER_MACHINE_GUN_COOLDOWN],
     projectile |-> Projectile(p.position, get_forward_direction(p), PLAYER_BULLET_SPEED,
                               PLAYER_BULLET_DAMAGE, FALSE, "player")]
fire_missile(p) ==
    [player |-> [p EXCEPT !.missile_cooldown = PLAYER_MISSILE_COOLDOWN, !.missiles = @ - 1],
     projectile |-> Projectile(p.position, get_forward_direction(p), PLAYER_MISSILE_SPEED,
                               PLAYER_MISSILE_DAMAGE, TRUE, "player")]


(***************************************************************************)
(* SkyStrike.  A handler is an operator on the world record                *)
(*   W = [g: the SkyStrike instance, ms: the catalog flags,                *)
(*        ev: history of this handler, h: history across handlers],        *)
(* so that the statements of a handler compose in program order.           *)
(***************************************************************************)
IsNone(x) == "none" \in DOMAIN x

NoKills == [t \in EnemyTypes |-> 0]

\* SkyStrike.__init__
NewGame ==
    [state |-> MENU, player |-> PlayerAircraft, camera_mode |-> 0,
     enemies |-> <<>>, projectiles |-> <<>>, explosions |-> <<>>,
     score |-> 0, combo |-> 0, combo_timer |-> 0, shots_fired |-> 0, shots_hit |-> 0,
     difficulty_multiplier |-> 1000, game_time |-> 0, enemy_spawn_timer |-> 0,
     god_mode |-> FALSE, mouse_left |-> FALSE, mouse_right |-> FALSE,
     current_mission |-> None, mission_timer |-> 0, mission_kills |-> NoKills,
     friendly_aircraft |-> None, defense_base |-> None, boss_enemy |-> None,
     breached_enemies |-> {}, mission_enemies_spawned |-> 0]

\* history of one handler
BlankEv(op, dt) ==
    [op |-> op, dt |-> dt,
     ran |-> FALSE,          \* update took its PLAYING branch
     full |-> FALSE,         \* update reached check_collisions
     decayed |-> FALSE,      \* update reached the combo-timer step
     kills |-> <<>>,         \* one record per enemy killed by a player projectile
     body |-> <<>>,          \* one record per enemy-vs-player body collision
     player_hits |-> <<>>,   \* one record per enemy projectile consumed by the player
     escort_hits |-> <<>>,   \* one record per enemy projectile consumed by the escort
     credited |-> <<>>,      \* uids of the enemies credited as breaches
     inside |-> <<>>,        \* uids of the alive enemies the breach loop found inside
     spawned |-> <<>>,       \* uids of the enemies appended
     completed |-> FALSE,    \* the handler set the mission's completed flag
     reset |-> FALSE,        \* the handler called reset()
     combo_start |-> 0,      \* the combo count when update began
     ai |-> <<>>,            \* one record per Enemy.update call of the enemy loop
     proj |-> <<>>,          \* one record per Projectile.update call of the projectile step
     pass |-> [enemies |-> <<>>, projectiles |-> <<>>, shots_hit |-> 0, explosions |-> 0],
                             \* what check_collisions was called on
     hits |-> <<>>,          \* one record per player projectile that hit an enemy
     player_died |-> FALSE,  \* the end-of-update check saw a dead player
     gun |-> FALSE]          \* idle() fired the machine gun before update

\* pids: the names of the projectile objects in the collection, in its order
\* (next_pid: the next name).
\* next_uid: names for the enemy objects of the
\* session (reset discards them all); killed and
\* since_kill: whether a kill happened since the reset and the dt of the PLAYING
\* updates since the last one (saturating at COMBO_WINDOW); breached_uids: the
\* enemy objects credited as breaches since the mission start; inside_uids:
\* the alive enemy objects the breach loop found inside the radius since then;
\* spent: the names of the projectile objects a collision loop has consumed;
\* left_held: whether the left mouse button is down, which is what the last
\* GLUT event for that button said, in whatever state the game took it
InitHist ==
    [next_uid |-> 1, since_kill |-> 0, killed |-> FALSE,
     breached_uids |-> {}, inside_uids |-> {}, blasts |-> <<>>,
     pids |-> <<>>, next_pid |-> 1, left_held |-> FALSE, spent |-> {}]

\* variant of reset: the mission catalog goes back to its initial flags too
resetCatalog(W) ==
    [W EXCEPT !.g = [@ EXCEPT
        !.player = PlayerAircraft, !.enemies = <<>>, !.projectiles = <<>>,
        !.explosions = <<>>, !.score = 0, !.combo = 0, !.combo_timer = 0,
        !.shots_fired = 0, !.shots_hit = 0, !.difficulty_multiplier = 1000,
        !.game_time = 0, !.enemy_spawn_timer = 0, !.mission_timer = 0,
        !.mission_kills = NoKills, !.friendly_aircraft = None, !.defense_base = None,
        !.boss_enemy = None, !.breached_enemies = {}, !.mission_enemies_spawned = 0,
        !.state = PLAYING],
      !.h = [@ EXCEPT !.next_uid = 1, !.killed = FALSE, !.since_kill = 0,
                      !.breached_uids = {}, !.inside_uids = {}, !.blasts = <<>>,
                      !.pids = <<>>, !.next_pid = 1, !.spent = {}],
      !.ms = InitMissions,
      !.ev.reset = TRUE]

\* variant of reset: the clocks (game time, spawn timer, mission timer) and
\* the shot counters are left running
resetKeepsClocks(W) ==
    [W EXCEPT !.g = [@ EXCEPT
        !.player = PlayerAircraft, !.enemies = <<>>, !.projectiles = <<>>,
        !.explosions = <<>>, !.score = 0, !.combo = 0, !.combo_timer = 0,
        !.difficulty_multiplier = 1000,
        !.mission_kills = NoKills, !.friendly_aircraft = None, !.defense_base = None,
        !.boss_enemy = None, !.breached_enemies = {}, !.mission_enemies_spawned = 0,
        !.state = PLAYING],
      !.h = [@ EXCEPT !.next_uid = 1, !.killed = FALSE, !.since_kill = 0,
                      !.breached_uids = {}, !.inside_uids = {}, !.blasts = <<>>,
                      !.pids = <<>>, !.next_pid = 1, !.spent = {}],
      !.ev.reset = TRUE]

\* SkyStrike.reset
reset(W) ==
    [W EXCEPT !.g = [@ EXCEPT
        !.player = PlayerAircraft, !.enemies = <<>>, !.projectiles = <<>>,
        !.explosions = <<>>, !.score = 0, !.combo = 0, !.combo_timer = 0,
        !.shots_fired = 0, !.shots_hit = 0, !.difficulty_multiplier = 1000,
        !.game_time = 0, !.enemy_spawn_timer = 0, !.mission_timer = 0,
        !.mission_kills = NoKills, !.friendly_aircraft = None, !.defense_base = None,
        !.boss_enemy = None, !.breached_enemies = {}, !.mission_enemies_spawned = 0,
        !.state = PLAYING],
      !.h = [@ EXCEPT !.next_uid = 1, !.killed = FALSE, !.since_kill = 0,
                      !.breached_uids = {}, !.inside_uids = {}, !.blasts = <<>>,
                      !.pids = <<>>, !.next_pid = 1, !.spent = {}],
      !.ev.reset = TRUE]

\* the first address the allocator has never handed out, as far as the
\* program can tell: one that is neither in use nor remembered as breached
FreshAddr(g) ==
    LET used == {g.enemies[i].addr : i \in 1..Len(g.enemies)} \cup g.breached_enemies
    IN CHOOSE a \in 1..(Cardinality(used) + 1) : a \notin used

\* id(Enemy(...)): a fresh address, or the address of an enemy that was
\* garbage-collected (id() values are unique only among objects alive at the
\* same time).  breached_enemies is the only place the program keeps an id,
\* so reuse of any other freed address cannot be told from a fresh one.
AllocChoices(g) ==
    {FreshAddr(g)} \cup
    (g.breached_enemies \ {g.enemies[i].addr : i \in 1..Len(g.enemies)})

\* SkyStrike.start_mission; pos and patrol are the random draws of the boss's
\* Enemy constructor
start_mission(W, m, pos, patrol) ==
    LET R == reset(W)
        mission == MISSIONS[m]
        g0 == [R.g EXCEPT !.current_mission = [id |-> m], !.mission_timer = 0,
                          !.mission_kills = NoKills]
        boss == [Enemy(mission.objectives.boss_type, pos, patrol, FreshAddr(g0), R.h.next_uid)
                    EXCEPT !.health = mission.objectives.boss_health,
                           !.max_health = mission.objectives.boss_health,
                           !.size = (@ * 15) \div 10]
        g1 == CASE mission.type = ESCORT ->
                     [g0 EXCEPT !.friendly_aircraft =
                         [FriendlyAircraft(Vector3(-((WORLD_SIZE * 8) \div 10), 100, 0),
                                           mission.objectives.escort_speed)
                            EXCEPT !.health = mission.objectives.escort_health,
                                   !.max_health = mission.objectives.escort_health]]
                [] mission.type = DEFENSE ->
                     [g0 EXCEPT !.defense_base = DefenseBase, !.breached_enemies = {}]
                [] mission.type = BOSS ->
                     [g0 EXCEPT !.boss_enemy = [addr |-> boss.addr],
                                !.enemies = Append(@, boss)]
                [] OTHER -> g0
    IN [R EXCEPT !.g = [g1 EXCEPT !.state = PLAYING],
                 !.h.next_uid = IF mission.type = BOSS THEN @ + 1 ELSE @]

\* the active Mission object (current_mission is not None)
CurrentMission(g) == MISSIONS[g.current_mission.id]
HasMission(g) == ~IsNone(g.current_mission)

\* variant of the completion: the next mission is unlocked, the mission is
\* not marked completed
CompleteMissionUnmarked(W) ==
    LET id == W.g.current_mission.id
    IN [W EXCEPT !.g.state = MISSION_COMPLETE,
                 !.ms.unlocked = IF id < Cardinality(MissionIds) - 1
                                 THEN [@ EXCEPT ![id + 1] = TRUE] ELSE @,
                 !.ev.completed = TRUE]

\* state = MISSION_COMPLETE; completed = True; unlock the next mission
CompleteMission(W) ==
    LET id == W.g.current_mission.id
    IN [W EXCEPT !.g.state = MISSION_COMPLETE,
                 !.ms.completed[id] = TRUE,
                 !.ms.unlocked = IF id < Cardinality(MissionIds) - 1
                                 THEN [@ EXCEPT ![id + 1] = TRUE] ELSE @,
                 !.ev.completed = TRUE]

RECURSIVE BreachLoop(_, _)
\* the breach loop of update, from enemy i on: [w, returned]
BreachLoop(W, i) ==
    IF i > Len(W.g.enemies) THEN [w |-> W, returned |-> FALSE]
    ELSE LET enemy == W.g.enemies[i]
             inside == check_breach(W.g.defense_base, enemy.position)
             W0 == IF enemy.alive /\ inside
                   THEN [W EXCEPT !.ev.inside = Append(@, enemy.uid),
                                  !.h.inside_uids = @ \cup {enemy.uid}]
                   ELSE W
         IN IF enemy.alive /\ enemy.addr \notin W.g.breached_enemies /\ inside
            THEN LET W1 == [W0 EXCEPT !.g.breached_enemies = @ \cup {enemy.addr},
                                      !.g.defense_base.breaches = @ + 1,
                                      !.ev.credited = Append(@, enemy.uid),
                                      !.h.breached_uids = @ \cup {enemy.uid}]
                 IN IF W1.g.defense_base.breaches
                         >= CurrentMission(W.g).objectives.max_breaches
                    THEN [w |-> [W1 EXCEPT !.g.state = MISSION_FAILED], returned |-> TRUE]
                    ELSE BreachLoop(W1, i + 1)
            ELSE BreachLoop(W0, i + 1)

\* variant of the guard of update: a paused game runs too
RunningOrPaused(g) == g.state \in {PLAYING, PAUSED}

\* the guard of update
Running(g) == g.state = PLAYING

\* update, from its first statement to the increment of enemy_spawn_timer:
\* [w, returned]
UpdateHead(W, dt) ==
    IF ~Running(W.g) THEN [w |-> W, returned |-> TRUE]
    ELSE
    LET W1 == [W EXCEPT !.g.game_time = @ + dt, !.ev.ran = TRUE,
                        !.ev.combo_start = W.g.combo,
                        !.h.since_kill = Min(COMBO_WINDOW, @ + dt)]
    IN IF HasMission(W1.g)
       THEN LET W2 == [W1 EXCEPT !.g.mission_timer = @ + dt]
                hasF == ~IsNone(W2.g.friendly_aircraft)
                W3 == IF hasF
                      THEN [W2 EXCEPT !.g.friendly_aircraft = FriendlyUpdate(@, dt)]
                      ELSE W2
            IN IF hasF /\ W3.g.friendly_aircraft.reached_destination
               THEN [w |-> CompleteMission(W3), returned |-> TRUE]
               ELSE IF hasF /\ ~W3.g.friendly_aircraft.alive
               THEN [w |-> [W3 EXCEPT !.g.state = MISSION_FAILED], returned |-> TRUE]
               ELSE LET B == IF ~IsNone(W3.g.defense_base) THEN BreachLoop(W3, 1)
                             ELSE [w |-> W3, returned |-> FALSE]
                    IN IF B.returned THEN B
                       ELSE [w |-> [B.w EXCEPT !.g.enemy_spawn_timer = @ + dt],
                             returned |-> FALSE]
       ELSE [w |-> [W1 EXCEPT
                      !.g.difficulty_multiplier =
                          1000 + (W1.g.game_time * DIFFICULTY_SCALE_RATE) \div 1000,
                      !.g.enemy_spawn_timer = @ + dt],
             returned |-> FALSE]

RECURSIVE FirstNeeded(_, _, _)
\* the first target type whose kills are still below its count, as a set
FirstNeeded(targets, kills, i) ==
    IF i > Len(targets) THEN {}
    ELSE IF kills[targets[i].etype] < targets[i].count THEN {targets[i].etype}
    ELSE FirstNeeded(targets, kills, i + 1)

\* variant of the spawn test: the timer alone decides, whatever the count
SpawnDueUncapped(g) ==
    IF HasMission(g)
    THEN LET m == CurrentMission(g)
         IN CASE m.type = SURVIVAL -> 2 * g.enemy_spawn_timer > ENEMY_SPAWN_INTERVAL
              [] m.type = DEFENSE ->
                   /\ g.mission_enemies_spawned < m.objectives.enemy_waves
                   /\ g.enemy_spawn_timer > ENEMY_SPAWN_INTERVAL
              [] m.type = BOSS -> FALSE
              [] OTHER -> g.enemy_spawn_timer > ENEMY_SPAWN_INTERVAL
    ELSE g.enemy_spawn_timer > (ENEMY_SPAWN_INTERVAL * 1000) \div g.difficulty_multiplier

\* whether the spawn branch of the current mode is taken (it zeroes the timer)
SpawnDue(g) ==
    IF HasMission(g)
    THEN LET m == CurrentMission(g)
             t == g.enemy_spawn_timer
             n == Len(g.enemies)
         IN CASE m.type = ELIMINATION ->
                   IF "target_type" \in DOMAIN m.objectives
                   THEN t > ENEMY_SPAWN_INTERVAL /\ n < 5
                   ELSE "targets" \in DOMAIN m.objectives
                        /\ t > ENEMY_SPAWN_INTERVAL /\ n < 8
              [] m.type = SURVIVAL -> 2 * t > ENEMY_SPAWN_INTERVAL /\ n < 10
              [] m.type = ESCORT -> t > ENEMY_SPAWN_INTERVAL /\ n < 6
              [] m.type = DEFENSE ->
                   /\ g.mission_enemies_spawned < m.objectives.enemy_waves
                   /\ t > ENEMY_SPAWN_INTERVAL /\ n < 5
              [] OTHER -> FALSE
    ELSE /\ g.enemy_spawn_timer > (ENEMY_SPAWN_INTERVAL * 1000) \div g.difficulty_multiplier
         /\ Len(g.enemies) < MAX_ENEMIES

\* the enemy types the spawn branch may construct (random.choice draws one)
SpawnTypes(g) ==
    IF ~SpawnDue(g) THEN {}
    ELSE IF HasMission(g)
    THEN LET m == CurrentMission(g)
         IN CASE m.type = ELIMINATION ->
                   IF "target_type" \in DOMAIN m.objectives
                   THEN {m.objectives.target_type}
                   ELSE FirstNeeded(m.objectives.targets, g.mission_kills, 1)
              [] m.type = SURVIVAL -> {"scout", "jet", "bomber"}
              [] OTHER -> {"scout", "jet"}
    ELSE {"scout", "jet", "bomber"}

\* whether the spawn branch counts the enemy in mission_enemies_spawned
CountsSpawn(g) == HasMission(g) /\ CurrentMission(g).type \in {ELIMINATION, DEFENSE}

NoDraw == [etype |-> "scout", position |-> Vector3(0, 0, 0),
           patrol_target |-> Vector3(0, 0, 0), addr |-> 0]

\* variant of the SURVIVAL test: the mission ends 3 s before the duration
SurvivalDoneEarly(g) ==
    g.mission_timer + 3000 >= CurrentMission(g).objectives.duration

\* SURVIVAL: "if self.mission_timer >= duration"
SurvivalDone(g) ==
    g.mission_timer >= CurrentMission(g).objectives.duration

\* variant of the DEFENSE test: an empty sky is enough, whatever was spawned
DefenseDoneAny(spawned, g) == Len(g.enemies) = 0

\* DEFENSE: the else branch of "if mission_enemies_spawned < enemy_waves"
\* (spawned is the count before this update's spawn) and "len(enemies) == 0"
DefenseDone(spawned, g) ==
    /\ ~(spawned < CurrentMission(g).objectives.enemy_waves)
    /\ Len(g.enemies) = 0

\* whether the object boss_enemy refers to is alive: it is the element of
\* enemies with its address until the alive filter drops it
BossAlive(g) ==
    \E i \in 1..Len(g.enemies) :
        g.enemies[i].addr = g.boss_enemy.addr /\ g.enemies[i].alive

\* BOSS: "if self.boss_enemy and not self.boss_enemy.alive"
BossDefeated(g) == ~IsNone(g.boss_enemy) /\ ~BossAlive(g)

\* update, from the spawn branch to the end of the mission-specific part:
\* [w, returned].  sp is the draw of the Enemy constructor.
UpdateSpawn(W, sp) ==
    LET due == SpawnDue(W.g)
        types == SpawnTypes(W.g)
        W1 == IF due THEN [W EXCEPT !.g.enemy_spawn_timer = 0] ELSE W
        W2 == IF types # {}
              THEN [W1 EXCEPT
                      !.g.enemies = Append(@, Enemy(sp.etype, sp.position, sp.patrol_target,
                                                    sp.addr, W.h.next_uid)),
                      !.g.mission_enemies_spawned = IF CountsSpawn(W.g) THEN @ + 1 ELSE @,
                      !.h.next_uid = @ + 1,
                      !.ev.spawned = Append(@, W.h.next_uid)]
              ELSE W1
        g == W2.g
    IN IF ~HasMission(g) THEN [w |-> W2, returned |-> FALSE]
       ELSE LET m == CurrentMission(g)
            IN CASE m.type = SURVIVAL /\ SurvivalDone(g) ->
                      [w |-> CompleteMission(W2), returned |-> TRUE]
                 [] m.type = DEFENSE /\ DefenseDone(W.g.mission_enemies_spawned, g) ->
                      [w |-> CompleteMission(W2), returned |-> TRUE]
                 [] m.type = BOSS /\ BossDefeated(g) ->
                      [w |-> CompleteMission(W2), returned |-> TRUE]
                 [] OTHER -> [w |-> W2, returned |-> FALSE]


\* the result of Enemy.update for an enemy that is not alive: None, nothing changed
NoUpdate(e) == [enemy |-> e, fired |-> FALSE, projectile |-> None]

\* history of one Enemy.update call: what the enemy and the game were when it
\* began, what the enemy was when it returned and what it returned
AiRecord(enemy, r, dt, g) ==
    [uid |-> enemy.uid, type |-> enemy.type, alive |-> enemy.alive,
     health |-> enemy.health, max_health |-> enemy.max_health,
     dist_sq |-> DistanceSq(enemy.position, g.player.position),
     position_before |-> enemy.position, position_after |-> r.enemy.position,
     state_before |-> enemy.state, state_after |-> r.enemy.state,
     cooldown_before |-> enemy.fire_cooldown, cooldown_after |-> r.enemy.fire_cooldown,
     cooldown_max |-> enemy.fire_cooldown_max,
     dt |-> dt, difficulty_multiplier |-> g.difficulty_multiplier,
     fired |-> r.fired,
     projectile |-> IF r.fired THEN r.projectile ELSE None]

\* variant of the test of the enemy loop: every enemy is updated and kept
UpdatedAlways(enemy) == TRUE

\* "if enemy.alive" of the enemy loop
Updated(enemy) == enemy.alive

\* the alive branch of the enemy loop, r being what enemy.update(...) gave:
\* the enemy stays in the collection and its projectile, if any, is appended
EnemyKept(W, enemy, r, dt) ==
    [W EXCEPT !.g.enemies = Append(@, r.enemy),
              !.g.projectiles = IF r.fired THEN Append(@, r.projectile) ELSE @,
              !.h.pids = IF r.fired THEN Append(@, W.h.next_pid) ELSE @,
              !.h.next_pid = IF r.fired THEN @ + 1 ELSE @,
              !.ev.ai = Append(@, AiRecord(enemy, r, dt, W.g))]

RECURSIVE EnemyLoop(_, _, _, _, _)
\* "for enemy in self.enemies[:]" of update, from element i of the copy on:
\* an alive enemy is updated (its projectile appended), a dead one removed.
\* W.g.enemies holds the enemies kept so far; pt[i] is the patrol draw of
\* enemy i.
EnemyLoop(W, copy, i, dt, pt) ==
    IF i > Len(copy) THEN W
    ELSE LET enemy == copy[i]
         IN IF Updated(enemy)
            THEN EnemyLoop(
                     EnemyKept(W, enemy,
                               EnemyUpdate(enemy, dt, W.g.player.position,
                                           W.g.difficulty_multiplier,
                                           IF i \in DOMAIN pt THEN pt[i]
                                           ELSE enemy.patrol_target),
                               dt),
                     copy, i + 1, dt, pt)
            ELSE EnemyLoop([W EXCEPT !.ev.ai = Append(@, AiRecord(enemy, NoUpdate(enemy), dt, W.g))],
                           copy, i + 1, dt, pt)

\* the enemy step of update
UpdateEnemies(W, dt, pt) ==
    EnemyLoop([W EXCEPT !.g.enemies = <<>>], W.g.enemies, 1, dt, pt)

\* the patrol draws the enemy step needs
RepickSet(g) ==
    {i \in 1..Len(g.enemies) : RepicksPatrol(g.enemies[i], g.player.position)}

KeepAlive(seq) == SelectSeq(seq, LAMBDA x : x.alive)

\* the projectile step of update: every projectile is updated against the
\* enemy list and removed when it is no longer alive
UpdateProjectiles(g, dt) ==
    [g EXCEPT !.projectiles =
        KeepAlive([i \in 1..Len(g.projectiles) |->
                      ProjectileUpdate(g.projectiles[i], dt, g.enemies)])]

\* history of the projectile step: the names (pids) of the projectile objects
\* it keeps, in the order of the collection
KeptPids(g, pids, dt) ==
    LET kept == {i \in 1..Len(g.projectiles) :
                    ProjectileUpdate(g.projectiles[i], dt, g.enemies).alive}
        F[i \in 0..Len(pids)] ==
            IF i = 0 THEN <<>>
            ELSE IF i \in kept THEN Append(F[i - 1], pids[i]) ELSE F[i - 1]
    IN F[Len(pids)]

\* history of the projectile step: for every Projectile.update call, the
\* projectile before and after it and the enemies (position, alive) it was
\* given
ProjRecords(g, dt) ==
    [i \in 1..Len(g.projectiles) |->
        [before |-> g.projectiles[i],
         after |-> ProjectileUpdate(g.projectiles[i], dt, g.enemies),
         dt |-> dt,
         enemies |-> [k \in 1..Len(g.enemies) |->
                         [position |-> g.enemies[k].position,
                          alive |-> g.enemies[k].alive]]]]

\* the explosion step of update
UpdateExplosions(g, dt) ==
    [g EXCEPT !.explosions =
        SelectSeq([i \in 1..Len(g.explosions) |-> ExplosionUpdate(g.explosions[i], dt)],
                  LAMBDA x : x.age < EXPLOSION_MAX_AGE)]

\* variant of the combo step: the timer runs down, the combo is never reset
UpdateComboKept(g, dt) ==
    IF g.combo > 0 THEN [g EXCEPT !.combo_timer = @ - dt] ELSE g

\* the combo step of update
UpdateCombo(g, dt) ==
    IF g.combo > 0
    THEN LET t == g.combo_timer - dt
         IN [g EXCEPT !.combo_timer = t, !.combo = IF t <= 0 THEN 0 ELSE @]
    ELSE g

BaseScore(t) == CASE t = "scout" -> 100 [] t = "jet" -> 200 [] OTHER -> 300

\* variant of the score: no combo bonus
ScorePointsFlat(enemy_type, combo, is_missile) ==
    BaseScore(enemy_type) * (IF is_missile THEN 2 ELSE 1)

\* int(base_score * (1 + combo * 0.5) * missile_bonus)
ScorePoints(enemy_type, combo, is_missile) ==
    (BaseScore(enemy_type) * (2 + combo) * (IF is_missile THEN 2 ELSE 1)) \div 2

\* whether the kill completes the active ELIMINATION mission
EliminationDone(m, kills) ==
    IF "target_type" \in DOMAIN m.objectives
    THEN kills[m.objectives.target_type] >= m.objectives.target_count
    ELSE "targets" \in DOMAIN m.objectives
         /\ \A k \in 1..Len(m.objectives.targets) :
               ~(kills[m.objectives.targets[k].etype] < m.objectives.targets[k].count)

\* the body of "if enemy.take_damage(proj.damage):" in check_collisions
KillEnemy(W, enemy, proj) ==
    LET W1 == [W EXCEPT !.g.explosions = Append(@, Explosion(enemy.position))]
        W2 == IF HasMission(W1.g)
              THEN [W1 EXCEPT !.g.mission_kills[enemy.type] = @ + 1]
              ELSE W1
        W3 == IF HasMission(W2.g) /\ CurrentMission(W2.g).type = ELIMINATION
                 /\ EliminationDone(CurrentMission(W2.g), W2.g.mission_kills)
              THEN CompleteMission(W2)
              ELSE W2
        points == ScorePoints(enemy.type, W.g.combo, proj.is_missile)
        W4 == [W3 EXCEPT !.g.score = @ + points,
                         !.g.combo = @ + 1,
                         !.g.combo_timer = COMBO_WINDOW]
    IN [W4 EXCEPT !.h.killed = TRUE, !.h.since_kill = 0,
                  !.h.blasts = Append(@, enemy.uid),
                  !.ev.kills = Append(@,
                      [uid |-> enemy.uid, type |-> enemy.type, is_missile |-> proj.is_missile,
                       combo_before |-> W.g.combo, score_before |-> W.g.score,
                       combo_after |-> W4.g.combo, score_after |-> W4.g.score,
                       timer_after |-> W4.g.combo_timer,
                       kills_after |-> W4.g.mission_kills])]

\* variant of the enemy scan: the last enemy in range is the one hit
LastHit(enemies, pos) ==
    LET S == {j \in 1..Len(enemies) :
                 enemies[j].alive /\ Within(pos, enemies[j].position, enemies[j].size)}
    IN IF S = {} THEN 0 ELSE CHOOSE j \in S : \A k \in S : j >= k

\* the first alive enemy the projectile is close enough to; 0 when none
FirstHit(enemies, pos) ==
    LET S == {j \in 1..Len(enemies) :
                 enemies[j].alive /\ Within(pos, enemies[j].position, enemies[j].size)}
    IN IF S = {} THEN 0 ELSE CHOOSE j \in S : \A k \in S : j <= k

\* variant of the test of take_damage's result: every hit counts as a kill
DestroyedAlways(hit) == TRUE

\* the value Enemy.take_damage returned for the enemy it left as hit
Destroyed(hit) == ~hit.alive

\* variant of the test that opens the projectile loops: a consumed
\* projectile is looked at again
LiveOrSpent(proj, owner) == proj.owner = owner

\* "if not proj.alive or proj.owner != owner: continue", negated
Live(proj, owner) == proj.alive /\ proj.owner = owner

RECURSIVE ProjectilesVsEnemies(_, _)
\* check_collisions, "Projectile vs Enemy", from projectile i on
ProjectilesVsEnemies(W, i) ==
    IF i > Len(W.g.projectiles) THEN W
    ELSE LET proj == W.g.projectiles[i]
             j == IF Live(proj, "player")
                  THEN FirstHit(W.g.enemies, proj.position) ELSE 0
         IN IF j = 0 THEN ProjectilesVsEnemies(W, i + 1)
            ELSE LET hit == EnemyTakeDamage(W.g.enemies[j], proj.damage)
                     W1 == [W EXCEPT !.g.projectiles[i].alive = FALSE,
                                     !.g.shots_hit = @ + 1,
                                     !.g.enemies[j] = hit,
                                     !.h.spent = @ \cup {W.h.pids[i]},
                                     !.ev.hits = Append(@,
                                         [proj |-> i, enemy |-> j, damage |-> proj.damage,
                                          lethal |-> ~hit.alive, pid |-> W.h.pids[i]])]
                 IN ProjectilesVsEnemies(
                        IF Destroyed(hit) THEN KillEnemy(W1, hit, proj) ELSE W1, i + 1)

RECURSIVE ProjectilesVsPlayer(_, _)
\* check_collisions, "Projectile vs Player" (run when god mode is off)
ProjectilesVsPlayer(W, i) ==
    IF i > Len(W.g.projectiles) THEN W
    ELSE LET proj == W.g.projectiles[i]
         IN IF Live(proj, "enemy")
               /\ Within(proj.position, W.g.player.position, 15)
            THEN LET p == PlayerTakeDamage(W.g.player, proj.damage)
                     W1 == [W EXCEPT !.g.projectiles[i].alive = FALSE,
                                     !.g.player = p,
                                     !.g.explosions =
                                         IF ~p.alive THEN Append(@, Explosion(p.position))
                                         ELSE @,
                                     !.h.spent = @ \cup {W.h.pids[i]},
                                     !.ev.player_hits = Append(@,
                                         [damage |-> proj.damage, pid |-> W.h.pids[i],
                                          was_alive |-> W.g.player.alive,
                                          exploded |-> ~p.alive])]
                 IN ProjectilesVsPlayer(W1, i + 1)
            ELSE ProjectilesVsPlayer(W, i + 1)

RECURSIVE ProjectilesVsFriendly(_, _)
\* check_collisions, "Projectile vs Friendly Aircraft" (run when the escort
\* exists and is alive at the start of the loop)
ProjectilesVsFriendly(W, i) ==
    IF i > Len(W.g.projectiles) THEN W
    ELSE LET proj == W.g.projectiles[i]
         IN IF Live(proj, "enemy")
               /\ Within(proj.position, W.g.friendly_aircraft.position, 10)
            THEN LET f == FriendlyTakeDamage(W.g.friendly_aircraft, proj.damage)
                     W1 == [W EXCEPT !.g.projectiles[i].alive = FALSE,
                                     !.g.friendly_aircraft = f,
                                     !.g.explosions =
                                         IF ~f.alive THEN Append(@, Explosion(f.position))
                                         ELSE @,
                                     !.h.spent = @ \cup {W.h.pids[i]},
                                     !.ev.escort_hits = Append(@,
                                         [damage |-> proj.damage, pid |-> W.h.pids[i],
                                          was_alive |-> W.g.friendly_aircraft.alive,
                                          exploded |-> ~f.alive])]
                 IN ProjectilesVsFriendly(W1, i + 1)
            ELSE ProjectilesVsFriendly(W, i + 1)

\* variant of the body collision: the enemy takes the player's 30 damage
BodyCollisionEven(W, i) ==
    LET enemy == W.g.enemies[i]
        e == EnemyTakeDamage(enemy, BODY_DAMAGE)
        p == PlayerTakeDamage(W.g.player, BODY_DAMAGE)
    IN [W EXCEPT !.g.enemies[i] = e,
                 !.g.player = p,
                 !.g.explosions = Append(@, Explosion(enemy.position)),
                 !.h.blasts = Append(@, enemy.uid),
                 !.ev.body = Append(@,
                     [uid |-> enemy.uid, type |-> enemy.type,
                      enemy_health |-> enemy.health,
                      max_health |-> enemy.max_health,
                      player_before |-> W.g.player.health,
                      player_after |-> p.health])]

\* variant of the body collision: ramming is credited like a kill
BodyCollisionCredited(W, i) ==
    LET enemy == W.g.enemies[i]
        e == EnemyTakeDamage(enemy, enemy.max_health)
        p == PlayerTakeDamage(W.g.player, BODY_DAMAGE)
    IN [W EXCEPT !.g.enemies[i] = e,
                 !.g.player = p,
                 !.g.explosions = Append(@, Explosion(enemy.position)),
                 !.g.score = @ + BaseScore(enemy.type),
                 !.g.mission_kills[enemy.type] = @ + 1,
                 !.h.blasts = Append(@, enemy.uid),
                 !.ev.body = Append(@,
                     [uid |-> enemy.uid, type |-> enemy.type,
                      enemy_health |-> enemy.health,
                      max_health |-> enemy.max_health,
                      player_before |-> W.g.player.health,
                      player_after |-> p.health])]

\* the three statements run when enemy i touches the player
BodyCollision(W, i) ==
    LET enemy == W.g.enemies[i]
        e == EnemyTakeDamage(enemy, enemy.max_health)
        p == PlayerTakeDamage(W.g.player, BODY_DAMAGE)
    IN [W EXCEPT !.g.enemies[i] = e,
                 !.g.player = p,
                 !.g.explosions = Append(@, Explosion(enemy.position)),
                 !.h.blasts = Append(@, enemy.uid),
                 !.ev.body = Append(@,
                     [uid |-> enemy.uid, type |-> enemy.type,
                      enemy_health |-> enemy.health,
                      max_health |-> enemy.max_health,
                      player_before |-> W.g.player.health,
                      player_after |-> p.health])]

RECURSIVE EnemiesVsPlayer(_, _)
\* check_collisions, "Enemy vs Player collision" (run when god mode is off)
EnemiesVsPlayer(W, i) ==
    IF i > Len(W.g.enemies) THEN W
    ELSE LET enemy == W.g.enemies[i]
         IN IF enemy.alive /\ W.g.player.alive
               /\ Within(enemy.position, W.g.player.position, enemy.size + 10)
            THEN EnemiesVsPlayer(BodyCollision(W, i), i + 1)
            ELSE EnemiesVsPlayer(W, i + 1)

\* "if not self.god_mode:" around the projectile-vs-player loop
PlayerPass(W) == IF ~W.g.god_mode THEN ProjectilesVsPlayer(W, 1) ELSE W

\* "if self.friendly_aircraft and self.friendly_aircraft.alive:" around the
\* projectile-vs-escort loop
FriendlyPass(W) ==
    IF ~IsNone(W.g.friendly_aircraft) /\ W.g.friendly_aircraft.alive
    THEN ProjectilesVsFriendly(W, 1) ELSE W

\* variant of the enemy-vs-player loop: it runs in god mode too
BodyPassAlways(W) == EnemiesVsPlayer(W, 1)

\* "if not self.god_mode:" around the enemy-vs-player loop
BodyPass(W) == IF ~W.g.god_mode THEN EnemiesVsPlayer(W, 1) ELSE W

\* variant of check_collisions: god mode is not consulted
check_collisionsNoGod(W) ==
    EnemiesVsPlayer(
        FriendlyPass(ProjectilesVsPlayer(ProjectilesVsEnemies(W, 1), 1)), 1)

\* SkyStrike.check_collisions: its four loops in program order
check_collisions(W) ==
    BodyPass(FriendlyPass(PlayerPass(ProjectilesVsEnemies(W, 1))))

\* variant of the game-over test: a damaged player ends the session too
CheckGameOverHurt(W) ==
    IF W.g.player.health < PLAYER_MAX_HEALTH /\ ~W.g.god_mode
    THEN [W EXCEPT !.g.state = IF HasMission(W.g) THEN MISSION_FAILED ELSE GAME_OVER,
                   !.ev.player_died = ~W.g.player.alive]
    ELSE W

\* variant of the end-of-update check: a dead player always ends in GAME_OVER
CheckGameOverPlain(W) ==
    IF ~W.g.player.alive /\ ~W.g.god_mode
    THEN [W EXCEPT !.g.state = GAME_OVER, !.ev.player_died = TRUE]
    ELSE W

\* the "Check game over" statement that ends update
CheckGameOver(W) ==
    IF ~W.g.player.alive /\ ~W.g.god_mode
    THEN [W EXCEPT !.g.state = IF HasMission(W.g) THEN MISSION_FAILED ELSE GAME_OVER,
                   !.ev.player_died = TRUE]
    ELSE W

\* update, from "Update player" to the combo step
UpdateMiddle(W, dt) ==
    [W EXCEPT !.g = UpdateCombo([@ EXCEPT !.player = PlayerUpdate(@, dt)], dt),
              !.ev.decayed = TRUE]

\* the projectile and explosion steps of update
ProjectileStep(W, dt) ==
    [W EXCEPT !.g = UpdateExplosions(UpdateProjectiles(@, dt), dt),
              !.ev.proj = ProjRecords(W.g, dt),
              !.h.pids = KeptPids(W.g, @, dt),
              !.ev.full = TRUE]

\* history: what check_collisions is about to be called on
PassRecord(W) ==
    [W EXCEPT !.ev.pass = [enemies |-> W.g.enemies,
                           projectiles |-> W.g.projectiles,
                           shots_hit |-> W.g.shots_hit,
                           explosions |-> Len(W.g.explosions)]]

\* update, from "Update enemies" to its end
UpdateTail(W, dt, pt) ==
    CheckGameOver(check_collisions(PassRecord(ProjectileStep(UpdateEnemies(W, dt, pt), dt))))


(***************************************************************************)
(* The callbacks registered in main(): idle, keyboard, keyboard_up, mouse. *)
(***************************************************************************)
\* variant of the machine-gun polling: the shot is not counted
IdleFireUncounted(W) ==
    IF W.g.state = PLAYING /\ W.g.mouse_left /\ CanFireMachineGun(W.g.player)
    THEN LET f == fire_machine_gun(W.g.player)
         IN [W EXCEPT !.g.player = f.player,
                      !.g.projectiles = Append(@, f.projectile),
                      !.h.pids = Append(@, W.h.next_pid), !.h.next_pid = @ + 1,
                      !.ev.gun = TRUE]
    ELSE W

\* idle, up to the call of update: continuous machine-gun fire
IdleFire(W) ==
    IF W.g.state = PLAYING /\ W.g.mouse_left /\ CanFireMachineGun(W.g.player)
    THEN LET f == fire_machine_gun(W.g.player)
         IN [W EXCEPT !.g.player = f.player,
                      !.g.projectiles = Append(@, f.projectile),
                      !.g.shots_fired = @ + 1,
                      !.h.pids = Append(@, W.h.next_pid), !.h.next_pid = @ + 1,
                      !.ev.gun = TRUE]
    ELSE W

Keys == {"space", "esc", "w", "s", "a", "d", "tab", "c", "g", "r"}

\* keyboard(key): 'q' (sys.exit in GAME_OVER) ends the process and is left out
keyboard(W, k) ==
    CASE W.g.state = MENU ->
           IF k = "space" THEN reset(W) ELSE W
      [] W.g.state = PLAYING ->
           CASE k = "esc" -> [W EXCEPT !.g.state = PAUSED]
             [] k = "w" -> [W EXCEPT !.g.player.input_up = TRUE]
             [] k = "s" -> [W EXCEPT !.g.player.input_down = TRUE]
             [] k = "a" -> [W EXCEPT !.g.player.input_left = TRUE]
             [] k = "d" -> [W EXCEPT !.g.player.input_right = TRUE]
             [] k = "space" -> [W EXCEPT !.g.player.input_up = TRUE]
             [] k = "tab" -> [W EXCEPT !.g.player.input_down = TRUE]
             [] k = "c" -> [W EXCEPT !.g.camera_mode = (@ + 1) % 4]
             [] k = "g" -> [W EXCEPT !.g.god_mode = ~@]
             [] OTHER -> W
      [] W.g.state = PAUSED ->
           IF k = "esc" THEN [W EXCEPT !.g.state = PLAYING] ELSE W
      [] W.g.state = GAME_OVER ->
           IF k = "r" THEN reset(W) ELSE W
      [] OTHER -> W

keyboard_up(W, k) ==
    CASE k = "w" -> [W EXCEPT !.g.player.input_up = FALSE]
      [] k = "s" -> [W EXCEPT !.g.player.input_down = FALSE]
      [] k = "a" -> [W EXCEPT !.g.player.input_left = FALSE]
      [] k = "d" -> [W EXCEPT !.g.player.input_right = FALSE]
      [] k = "space" -> [W EXCEPT !.g.player.input_up = FALSE]
      [] k = "tab" -> [W EXCEPT !.g.player.input_down = FALSE]
      [] OTHER -> W

\* mouse(button, state): down is TRUE for GLUT_DOWN
mouse(W, button, down) ==
    IF W.g.state # PLAYING THEN W
    ELSE IF button = "left" THEN [W EXCEPT !.g.mouse_left = down]
    ELSE IF ~down THEN [W EXCEPT !.g.mouse_right = FALSE]
    ELSE IF CanFireMissile(W.g.player)
    THEN LET f == fire_missile(W.g.player)
         IN [W EXCEPT !.g.mouse_right = TRUE, !.g.player = f.player,
                      !.g.projectiles = Append(@, f.projectile),
                      !.g.shots_fired = @ + 1,
                      !.h.pids = Append(@, W.h.next_pid), !.h.next_pid = @ + 1]
    ELSE [W EXCEPT !.g.mouse_right = TRUE]

(***************************************************************************)
(* Bounds and input domains of the model                                   *)
(***************************************************************************)
\* handler calls (idle ticks and input events) in one run
MaxSteps == 3

\* elapsed times handed to update, in milliseconds
DtSession == {1000, 3500, 60000}
DtCombat == {200, 3500}

\* draws of the Enemy constructor: position is (+-500 * [0.5, 1], [50, 300],
\* +-500 * [0.5, 1]); the patrol target is within 80% of the world, 50..300 high
SpawnPositions == {Vector3(250, 50, 250), Vector3(-500, 300, 375)}
PatrolTargets == {Vector3(0, 50, 0), Vector3(400, 300, -400)}

SpawnDraws(g) ==
    IF SpawnTypes(g) = {} THEN {NoDraw}
    ELSE [etype : SpawnTypes(g), position : SpawnPositions,
          patrol_target : PatrolTargets, addr : AllocChoices(g)]

(***************************************************************************)
(* Actions                                                                 *)
(***************************************************************************)
World(op, dt) == [g |-> game, ms |-> missions, ev |-> BlankEv(op, dt), h |-> hist]

Apply(W) ==
    /\ calls < MaxSteps
    /\ game' = W.g
    /\ missions' = W.ms
    /\ ev' = W.ev
    /\ hist' = W.h
    /\ calls' = calls + 1

\* one idle callback: machine-gun polling, then update(dt)
Idle(dt) ==
    /\ calls < MaxSteps
    /\ LET W0 == IdleFire(World("idle", dt))
           A == UpdateHead(W0, dt)
       IN IF A.returned THEN Apply(A.w)
          ELSE \E sp \in SpawnDraws(A.w.g) :
                  LET B == UpdateSpawn(A.w, sp)
                  IN IF B.returned THEN Apply(B.w)
                     ELSE LET C == UpdateMiddle(B.w, dt)
                          IN \E pt \in [RepickSet(C.g) -> PatrolTargets] :
                                Apply(UpdateTail(C, dt, pt))

Keyboard(k) == Apply(keyboard(World("input", 0), k))

KeyboardUp(k) == Apply(keyboard_up(World("input", 0), k))

Mouse(button, down) ==
    Apply([mouse(World("input", 0), button, down)
              EXCEPT !.h.left_held = IF button = "left" THEN down ELSE @])

\* start_mission(MISSIONS[m]), called by the mission menu
StartMission(m) ==
    \E pos \in IF MISSIONS[m].type = BOSS THEN SpawnPositions ELSE {Vector3(0, 0, 0)} :
        Apply(start_mission(World("start_mission", 0), m, pos, Vector3(0, 50, 0)))

\* reset(), called directly
Reset == Apply(reset(World("reset", 0)))

Init ==
    /\ game = NewGame
    /\ missions = InitMissions
    /\ ev = BlankEv("init", 0)
    /\ hist = InitHist
    /\ calls = 0

\* every handler, from construction
Next ==
    \/ \E dt \in DtSession : Idle(dt)
    \/ \E k \in {"space", "esc", "g", "r"} : Keyboard(k)
    \/ \E k \in {"space"} : KeyboardUp(k)
    \/ \E b \in {"left", "right"}, d \in BOOLEAN : Mouse(b, d)
    \/ \E m \in MissionIds : StartMission(m)
    \/ Reset

Spec == Init /\ [][Next]_vars

(***************************************************************************)
(* Sessions in progress.  A kill, a ramming or a completed objective lies  *)
(* many frames after construction, so the combat specifications start from *)
(* states of a running session: the result of reset() or start_mission(),  *)
(* advanced to a point where the player (at the start position, heading    *)
(* +z) has already scored, an enemy with little health left is about to    *)
(* meet a player bullet, and a second enemy circles the player at close    *)
(* range.                                                                  *)
(***************************************************************************)
CombatModes == {"free", "m0", "m1", "m3", "m5", "m6"}

ModeMission(mode) ==
    CASE mode = "m0" -> 0 [] mode = "m1" -> 1 [] mode = "m3" -> 3
      [] mode = "m5" -> 5 [] OTHER -> 6

\* kills so far
ModeKills(mode) ==
    CASE mode = "m0" -> [NoKills EXCEPT !["scout"] = 2]
      [] mode = "m6" -> [NoKills EXCEPT !["bomber"] = 3, !["jet"] = 4]
      [] mode \in {"m1", "m3"} -> [NoKills EXCEPT !["scout"] = 1]
      [] OTHER -> NoKills

ModeTargetType(mode) == IF mode = "m0" THEN "scout" ELSE "jet"

\* the enemy a player shot is about to reach, far ahead of the player and
\* with the health earlier hits have left it (one bullet's worth)
TargetEnemy(mode, addr, uid) ==
    LET t == ModeTargetType(mode)
    IN [Enemy(t, Vector3(0, 100, 460), Vector3(0, 100, 400), addr, uid)
          EXCEPT !.health = PLAYER_BULLET_DAMAGE,
                 !.state_timer = 9000]

\* where the target enemy is after a 200 ms frame: it patrols toward the
\* player, or flees from the player when its health is below 30 %
TargetAfterFrame(mode) ==
    LET e == TargetEnemy(mode, 1, 1)
        reach == IF mode = "free" THEN (2 * e.speed * 200) \div 1000
                 ELSE (e.speed * 200) \div 1000
    IN IF 10 * e.health < 3 * e.max_health THEN 460 + reach ELSE 460 - reach

\* the enemy circling the player: 24 units ahead of where the player will be
\* after a 200 ms frame, its orbit angle at 270 degrees; in free play it has
\* taken one bullet before
CloseEnemy(mode, addr, uid) ==
    LET t == IF mode = "m0" THEN "scout" ELSE IF mode = "m6" THEN "bomber" ELSE "jet"
    IN [Enemy(t, Vector3(0, 100, 40), Vector3(0, 50, 0), addr, uid)
          EXCEPT !.state = ATTACK, !.state_timer = 4520,
                 !.fire_cooldown = 200,
                 !.health = IF mode = "free" THEN @ - PLAYER_BULLET_DAMAGE ELSE @]

\* the player projectile on its way to the target enemy, 200 ms away from
\* it: a missile in free play (where 20 s of play have doubled the enemies'
\* speed), a bullet in the missions
ShotInFlight(mode) ==
    IF mode = "free"
    THEN [Projectile(Vector3(0, 100, TargetAfterFrame(mode) - (PLAYER_MISSILE_SPEED * 200) \div 1000),
                     Vector3(0, 0, 1), PLAYER_MISSILE_SPEED, PLAYER_MISSILE_DAMAGE,
                     TRUE, "player")
            EXCEPT !.lifetime = 4800]
    ELSE [Projectile(Vector3(0, 100, TargetAfterFrame(mode) - (PLAYER_BULLET_SPEED * 200) \div 1000),
                     Vector3(0, 0, 1), PLAYER_BULLET_SPEED, PLAYER_BULLET_DAMAGE,
                     FALSE, "player")
            EXCEPT !.lifetime = 3400]

\* the escort 16 units from its destination: 200 ms from the 10-unit arrival
\* distance
EscortNearEnd(f) == [f EXCEPT !.position = Vector3(f.destination.x - 16, 100, 0)]

\* an enemy bullet 200 ms away from the escort (ESCORT mission)
ShotAtEscort(f) ==
    [Projectile(Vector3(f.position.x + (f.speed * 200) \div 1000
                                     + (ENEMY_PROJECTILE_SPEED * 200) \div 1000, 100, 0),
                Vector3(-1, 0, 0), ENEMY_PROJECTILE_SPEED,
                EnemyDamage("jet"), FALSE, "enemy")
       EXCEPT !.lifetime = 1000]

\* the PLAYING time behind the session: 3 s short of the duration in
\* SURVIVAL, the escort's flight so far in ESCORT, 20 s otherwise
ModeElapsed(mode) ==
    CASE mode = "m1" -> MISSIONS[1].objectives.duration - 3000
      [] mode = "m3" -> ((2 * ((WORLD_SIZE * 8) \div 10) - 16) * 1000)
                            \div MISSIONS[3].objectives.escort_speed
      [] OTHER -> 20000

\* a session of the given mode in progress; hp is the player's health, combo
\* the running combo (1: the last kill was 1500 ms ago)
CombatSession(mode, hp, combo) ==
    LET W0 == [g |-> NewGame, ms |-> InitMissions, ev |-> BlankEv("init", 0), h |-> InitHist]
        S == IF mode = "free" THEN reset(W0)
             ELSE start_mission(W0, ModeMission(mode), Vector3(250, 50, 250),
                                Vector3(0, 50, 0))
        kills == ModeKills(mode)
        nkills == kills["scout"] + kills["jet"] + kills["bomber"]
                  + (IF mode = "free" THEN 1 ELSE 0)
        enemies ==
            IF mode = "m5"
            THEN <<[S.g.enemies[1] EXCEPT !.position = Vector3(0, 100, 40),
                                          !.state = ATTACK, !.state_timer = 4520,
                                          !.fire_cooldown = 200]>>
            ELSE <<TargetEnemy(mode, 1, 1), CloseEnemy(mode, 2, 2)>>
        g == [S.g EXCEPT
                !.player.health = hp,
                !.enemies = enemies,
                !.projectiles = CASE mode = "m5" -> <<>>
                                  [] mode = "m3" ->
                                       <<ShotInFlight(mode),
                                         ShotAtEscort(EscortNearEnd(S.g.friendly_aircraft))>>
                                  [] OTHER -> <<ShotInFlight(mode)>>,
                !.friendly_aircraft =
                    IF mode = "m3"
                    THEN [EscortNearEnd(@) EXCEPT
                                   !.health = IF hp = PLAYER_MAX_HEALTH THEN @
                                              ELSE EnemyDamage("jet")]
                    ELSE @,
                !.game_time = ModeElapsed(mode),
                !.mission_timer = IF mode = "free" THEN 0 ELSE ModeElapsed(mode),
                !.difficulty_multiplier = IF mode = "free" THEN 2000 ELSE 1000,
                !.mission_kills = kills,
                !.mission_enemies_spawned =
                    IF mode \in {"m0", "m6"} THEN nkills + 2 ELSE 0,
                !.score = 100 * kills["scout"] + 200 * kills["jet"] + 300 * kills["bomber"]
                          + (IF mode = "free" THEN 200 ELSE 0),
                !.combo = combo,
                !.combo_timer = IF combo > 0 THEN 1500 ELSE 0,
                !.shots_fired = 6 * nkills + 3,
                !.shots_hit = 6 * nkills + 2]
    IN [S EXCEPT !.g = g,
                 !.h = [@ EXCEPT !.next_uid = 3, !.killed = nkills > 0,
                                 !.since_kill = IF combo > 0 THEN 1500 ELSE COMBO_WINDOW,
                                 !.pids = [i \in 1..Len(g.projectiles) |-> i],
                                 !.next_pid = Len(g.projectiles) + 1]]

CombatSessions ==
    {CombatSession(mode, hp, combo) :
        mode \in CombatModes, hp \in {PLAYER_MAX_HEALTH, BODY_DAMAGE}, combo \in {0, 1}}

InitCombat ==
    \E S \in CombatSessions :
        /\ game = S.g
        /\ missions = S.ms
        /\ ev = S.ev
        /\ hist = S.h
        /\ calls = 0

NextCombat ==
    \/ \E dt \in DtCombat : Idle(dt)
    \/ \E k \in {"esc", "g"} : Keyboard(k)

SpecCombat == InitCombat /\ [][NextCombat]_vars

(***************************************************************************)
(* A DEFENSE mission in progress.  One enemy (uid 1) sits inside the       *)
(* breach radius and has been counted.  With gone, a second counted enemy  *)
(* (uid 3) was destroyed afterwards and its object collected, which frees  *)
(* its address; with near, an enemy not yet counted (uid 2) is 200 ms      *)
(* from the radius.  The spawn timer is 100 ms short of the interval.      *)
(* Two more sessions are at the end of the mission (DefenseEndSession).    *)
(***************************************************************************)
DtDefense == {200, 3500}

DefenseSession(gone, near) ==
    LET W0 == [g |-> NewGame, ms |-> InitMissions, ev |-> BlankEv("init", 0), h |-> InitHist]
        S == start_mission(W0, 4, Vector3(250, 50, 250), Vector3(0, 50, 0))
        inside == Enemy("jet", Vector3(0, 50, 0), Vector3(400, 300, -400), 1, 1)
        coming == Enemy("scout", Vector3(0, 50, -110), Vector3(0, 50, 0), 2, 2)
        counted == IF gone THEN {1, 3} ELSE {1}
        g == [S.g EXCEPT
                !.player.position = Vector3(-400, 100, -400),
                !.enemies = IF near THEN <<inside, coming>> ELSE <<inside>>,
                !.game_time = 20000, !.mission_timer = 20000,
                !.enemy_spawn_timer = 2900,
                !.mission_enemies_spawned = 3,
                !.breached_enemies = counted,
                !.defense_base.breaches = Cardinality(counted)]
    IN [S EXCEPT !.g = g,
                 !.h = [@ EXCEPT !.next_uid = 4, !.breached_uids = counted,
                                 !.inside_uids = counted]]

\* the end of a DEFENSE mission: spawned enemies have been counted so far
\* (the quota or one less), and the last of them, far from the base, is one
\* player bullet away from destruction
DefenseEndSession(spawned) ==
    LET W0 == [g |-> NewGame, ms |-> InitMissions, ev |-> BlankEv("init", 0), h |-> InitHist]
        S == start_mission(W0, 4, Vector3(250, 50, 250), Vector3(0, 50, 0))
        g == [S.g EXCEPT
                !.enemies = <<TargetEnemy("m0", 1, 1)>>,
                !.projectiles = <<ShotInFlight("m0")>>,
                !.game_time = 60000, !.mission_timer = 60000,
                !.enemy_spawn_timer = 0,
                !.mission_enemies_spawned = spawned,
                !.shots_fired = 6 * spawned, !.shots_hit = 6 * spawned - 1]
    IN [S EXCEPT !.g = g,
                 !.h = [@ EXCEPT !.next_uid = 2, !.killed = TRUE,
                                 !.since_kill = COMBO_WINDOW,
                                 !.pids = <<1>>, !.next_pid = 2]]

DefenseSessions ==
    {DefenseSession(gone, near) : gone \in BOOLEAN, near \in BOOLEAN}
    \cup {DefenseEndSession(MISSIONS[4].objectives.enemy_waves - k) : k \in {0, 1}}

InitDefense ==
    \E S \in DefenseSessions :
        /\ game = S.g
        /\ missions = S.ms
        /\ ev = S.ev
        /\ hist = S.h
        /\ calls = 0

NextDefense ==
    \/ \E dt \in DtDefense : Idle(dt)
    \/ \E k \in {"esc"} : Keyboard(k)

SpecDefense == InitDefense /\ [][NextDefense]_vars

(***************************************************************************)
(* Free play with projectiles in flight and enemies on patrol far from the *)
(* player: a player missile flying straight ahead (+z) with, per scene, an *)
(* enemy directly to its right, a nearer enemy second in the list, two     *)
(* enemies at the same distance, or no enemy; a player bullet about to     *)
(* leave the world, an enemy bullet about to pass the ceiling, an enemy    *)
(* bullet near the end of its lifetime and a fresh enemy bullet.  In the   *)
(* scene "overlap" two bombers fly side by side, the first in the list one *)
(* bullet from destruction, and two player bullets are one 200 ms frame    *)
(* from a point within the size of both, nearer to the second, while a     *)
(* jet circles within body-collision range of the player.                  *)
(***************************************************************************)
DtGuidance == {200, 3500}

GuidanceScenes == {"right", "second", "tie", "none", "overlap"}

\* a jet on patrol along the x axis, away from the missile's line of flight
PatrolJet(x, addr, uid) ==
    Enemy("jet", Vector3(x, 100, 200), Vector3(IF x > 0 THEN 400 ELSE -400, 100, 200),
          addr, uid)

SceneEnemies(scene) ==
    CASE scene = "right" -> <<PatrolJet(100, 1, 1)>>
      [] scene = "second" -> <<PatrolJet(300, 1, 1), PatrolJet(-100, 2, 2)>>
      [] scene = "tie" -> <<PatrolJet(100, 1, 1), PatrolJet(-100, 2, 2)>>
      [] scene = "overlap" ->
           <<[Enemy("bomber", Vector3(5, 100, 300), Vector3(5, 100, 400), 1, 1)
                EXCEPT !.health = PLAYER_BULLET_DAMAGE],
             Enemy("bomber", Vector3(-3, 100, 300), Vector3(-3, 100, 400), 2, 2),
             CloseEnemy("free", 3, 3)>>
      [] OTHER -> <<>>

\* a player bullet that reaches z = 306 in a 200 ms frame
BulletToOverlap ==
    Projectile(Vector3(0, 100, 306 - (PLAYER_BULLET_SPEED * 200) \div 1000),
               Vector3(0, 0, 1), PLAYER_BULLET_SPEED, PLAYER_BULLET_DAMAGE, FALSE, "player")

SceneProjectiles ==
    <<Projectile(Vector3(0, 100, 200), Vector3(0, 0, 1), PLAYER_MISSILE_SPEED,
                 PLAYER_MISSILE_DAMAGE, TRUE, "player"),
      Projectile(Vector3(0, 100, 480), Vector3(0, 0, 1), PLAYER_BULLET_SPEED,
                 PLAYER_BULLET_DAMAGE, FALSE, "player"),
      Projectile(Vector3(50, 390, 0), Vector3(0, 1, 0), ENEMY_PROJECTILE_SPEED,
                 EnemyDamage("jet"), FALSE, "enemy"),
      [Projectile(Vector3(0, 300, -300), Vector3(1, 0, 0), ENEMY_PROJECTILE_SPEED,
                  EnemyDamage("jet"), FALSE, "enemy") EXCEPT !.lifetime = 4900],
      Projectile(Vector3(-400, 200, -400), Vector3(1, 0, 1), ENEMY_PROJECTILE_SPEED,
                 EnemyDamage("scout"), FALSE, "enemy")>>

GuidanceSession(scene) ==
    LET W0 == [g |-> NewGame, ms |-> InitMissions, ev |-> BlankEv("init", 0), h |-> InitHist]
        S == reset(W0)
        enemies == SceneEnemies(scene)
        shots == IF scene = "overlap" THEN <<BulletToOverlap, BulletToOverlap>>
                 ELSE SceneProjectiles
    IN [S EXCEPT !.g.enemies = enemies,
                 !.g.projectiles = shots,
                 !.g.shots_fired = 2,
                 !.h.next_uid = Len(enemies) + 1,
                 !.h.pids = [i \in 1..Len(shots) |-> i],
                 !.h.next_pid = Len(shots) + 1]

InitGuidance ==
    \E scene \in GuidanceScenes :
        LET S == GuidanceSession(scene)
        IN /\ game = S.g
           /\ missions = S.ms
           /\ ev = S.ev
           /\ hist = S.h
           /\ calls = 0

NextGuidance ==
    \/ \E dt \in DtGuidance : Idle(dt)
    \/ Mouse("right", TRUE)

SpecGuidance == InitGuidance /\ [][NextGuidance]_vars

(***************************************************************************)
(* The same scenes with the idle callback running for as long as the game  *)
(* is PLAYING: GLUT calls idle whenever no event is pending, so an update  *)
(* that can run eventually runs (weak fairness).  The play time is capped. *)
(***************************************************************************)
\* milliseconds of play after which no further update is taken
MaxPlay == 8000

DtFlight == {1000, 3500}

\* a missile with an enemy to chase, and one with none until a spawn
FlightScenes == {"right", "none"}

InitFlight ==
    \E scene \in FlightScenes :
        LET S == GuidanceSession(scene)
        IN /\ game = S.g
           /\ missions = S.ms
           /\ ev = S.ev
           /\ hist = S.h
           /\ calls = 0

\* the worlds one idle callback can leave, over the draws of the Enemy
\* constructor and of _new_patrol_target
IdleOutcomes(dt) ==
    LET W0 == IdleFire(World("idle", dt))
        A == UpdateHead(W0, dt)
    IN IF A.returned THEN {A.w}
       ELSE UNION {LET B == UpdateSpawn(A.w, sp)
                   IN IF B.returned THEN {B.w}
                      ELSE LET C == UpdateMiddle(B.w, dt)
                           IN {UpdateTail(C, dt, pt) :
                                  pt \in [RepickSet(C.g) -> PatrolTargets]}
                   : sp \in SpawnDraws(A.w.g)}

\* one idle callback of a PLAYING game within the capped play time
Frame(dt) ==
    /\ game.state = PLAYING
    /\ game.game_time < MaxPlay
    /\ \E W \in IdleOutcomes(dt) :
          /\ game' = W.g
          /\ missions' = W.ms
          /\ ev' = W.ev
          /\ hist' = W.h
          /\ calls' = calls + 1

NextFlight == \E dt \in DtFlight : Frame(dt)

\* what every Frame step does to the call counter; a Frame step is possible
\* exactly when this is, so fairness is stated on the counter
NextCall ==
    /\ game.state = PLAYING
    /\ game.game_time < MaxPlay
    /\ calls' = calls + 1

SpecFlight == InitFlight /\ [][NextFlight]_vars /\ WF_calls(NextCall)

(***************************************************************************)
(* Crowded skies: a session of every mode with as many enemies as the      *)
(* spawn branch allows, or one fewer, all patrolling far from the player.  *)
(***************************************************************************)
DtCrowd == {200, 3500}

\* the k-th enemy of the crowd: a jet crossing the far side of the world
CrowdEnemy(k) ==
    Enemy("jet", Vector3(-480, 300, WORLD_SIZE - 10 * k),
          Vector3(480, 300, WORLD_SIZE - 10 * k), k, k)

\* the count the spawn branch of the session's mode stops at
CrowdSize(g) ==
    IF ~HasMission(g) THEN MAX_ENEMIES
    ELSE LET mission == CurrentMission(g)
         IN CASE mission.type = ELIMINATION ->
                   IF "target_type" \in DOMAIN mission.objectives THEN 5 ELSE 8
              [] mission.type = SURVIVAL -> 10
              [] mission.type = ESCORT -> 6
              [] OTHER -> 5

\* free play (mission = FALSE) or mission m just started, with room more
\* enemies to go; the BOSS session is the one start_mission builds
CrowdSession(mission, m, room) ==
    LET W0 == [g |-> NewGame, ms |-> InitMissions, ev |-> BlankEv("init", 0), h |-> InitHist]
        S == IF mission
             THEN start_mission(W0, m, Vector3(250, 50, 250), Vector3(0, 50, 0))
             ELSE reset(W0)
        n == CrowdSize(S.g) - room
    IN IF mission /\ MISSIONS[m].type = BOSS THEN S
       ELSE [S EXCEPT !.g.enemies = [k \in 1..n |-> CrowdEnemy(k)],
                      !.g.mission_enemies_spawned =
                          IF MISSIONS[m].type = DEFENSE THEN n ELSE @,
                      !.h.next_uid = n + 1]

CrowdSessions ==
    {CrowdSession(FALSE, 0, room) : room \in {0, 1}}
       \cup {CrowdSession(TRUE, m, room) : m \in MissionIds, room \in {0, 1}}

InitCrowd ==
    \E S \in CrowdSessions :
        /\ game = S.g
        /\ missions = S.ms
        /\ ev = S.ev
        /\ hist = S.h
        /\ calls = 0

NextCrowd == \E dt \in DtCrowd : Idle(dt)

SpecCrowd == InitCrowd /\ [][NextCrowd]_vars

(***************************************************************************)
(* The sessions in progress of SpecCombat, restarted at any moment: reset  *)
(* and start_mission are called from a session with kills, shots in        *)
(* flight, a running combo and a hurt player.                              *)
(***************************************************************************)
NextRestart ==
    \/ \E dt \in DtCombat : Idle(dt)
    \/ Reset
    \/ \E m \in MissionIds : StartMission(m)

SpecRestart == InitCombat /\ [][NextRestart]_vars

(***************************************************************************)
(* Properties                                                              *)
(***************************************************************************)
(***************************************************************************)
(* Sessions at the mouse and the keyboard: free play that is running,      *)
(* paused or over, with the left button up or held down since the game was *)
(* last PLAYING, and an enemy circling just ahead of the player.  The       *)
(* button is a physical one: a press follows a release.                    *)
(***************************************************************************)
InputStates == {PLAYING, PAUSED, GAME_OVER}

InputSession(state, held) ==
    LET W0 == [g |-> NewGame, ms |-> InitMissions, ev |-> BlankEv("init", 0), h |-> InitHist]
        R == reset(W0)
    IN [R EXCEPT !.g.state = state,
                 !.g.enemies = <<CloseEnemy("free", 1, 1)>>,
                 !.h.next_uid = 2,
                 !.g.mouse_left = held,
                 !.g.player.health = IF state = GAME_OVER THEN 0 ELSE @,
                 !.g.player.alive = (state # GAME_OVER),
                 !.h.left_held = held,
                 !.ev = BlankEv("init", 0)]

InitInput ==
    \E state \in InputStates, held \in BOOLEAN :
        LET S == InputSession(state, held)
        IN /\ game = S.g
           /\ missions = S.ms
           /\ ev = S.ev
           /\ hist = S.h
           /\ calls = 0

\* the left button goes down if it was up, and up if it was down
MouseLeft == Mouse("left", ~hist.left_held)

NextInput ==
    \/ \E dt \in DtCombat : Idle(dt)
    \/ \E k \in {"esc", "r"} : Keyboard(k)
    \/ MouseLeft
    \/ \E down \in BOOLEAN : Mouse("right", down)

SpecInput == InitInput /\ [][NextInput]_vars

(***************************************************************************)
(* Escort flights: mission 3 with the escort on its last stretch, the      *)
(* player either far behind or flying beside it, and two enemy bullets     *)
(* about to reach the escort (and the player, when beside it) at the end   *)
(* of a 250 ms frame.  A run is a bounded number of idle ticks of the      *)
(* PLAYING game; the scheduler (glutIdleFunc) keeps calling idle.          *)
(***************************************************************************)
\* idle ticks in one run of an escort flight
MaxFrames == 8

DtEscort == {250, 1000}

\* the escort's distance to its destination when the run starts
EscortDistances == {16, 50}

\* where the escort is after a 250 ms frame
EscortNext(f) == FriendlyUpdate(f, 250).position

\* an enemy bullet that the projectile step of a 250 ms frame moves onto the
\* escort
BulletAtEscort(f) ==
    Projectile(VAdd(EscortNext(f), Vector3((ENEMY_PROJECTILE_SPEED * 250) \div 1000, 0, 0)),
               Vector3(-1, 0, 0), ENEMY_PROJECTILE_SPEED, EnemyDamage("jet"), FALSE, "enemy")

\* the player where a 250 ms frame of straight flight brings it onto the
\* escort
BesideEscort(f) ==
    [PlayerAircraft EXCEPT
        !.position = VSub(EscortNext(f), Vector3(0, 0, (PLAYER_SPEED * 250) \div 1000))]

EscortSession(dist, beside, hp, escort_hp) ==
    LET W0 == [g |-> NewGame, ms |-> InitMissions, ev |-> BlankEv("init", 0), h |-> InitHist]
        S == start_mission(W0, 3, Vector3(0, 0, 0), Vector3(0, 50, 0))
        f == [S.g.friendly_aircraft EXCEPT
                 !.position = Vector3(@.x + 2 * ((WORLD_SIZE * 8) \div 10) - dist, @.y, @.z),
                 !.health = escort_hp]
        elapsed == ((2 * ((WORLD_SIZE * 8) \div 10) - dist) * 1000) \div f.speed
    IN [S EXCEPT !.g.friendly_aircraft = f,
                 !.g.player = [(IF beside THEN BesideEscort(f) ELSE @) EXCEPT !.health = hp],
                 !.g.projectiles = <<BulletAtEscort(f), BulletAtEscort(f)>>,
                 !.g.game_time = elapsed,
                 !.g.mission_timer = elapsed,
                 !.h.pids = <<1, 2>>,
                 !.h.next_pid = 3]

InitEscort ==
    \E dist \in EscortDistances, beside \in BOOLEAN,
       hp \in {PLAYER_MAX_HEALTH, EnemyDamage("jet")},
       escort_hp \in {100, EnemyDamage("jet")} :
        LET S == EscortSession(dist, beside, hp, escort_hp)
        IN /\ game = S.g
           /\ missions = S.ms
           /\ ev = S.ev
           /\ hist = S.h
           /\ calls = 0

\* one idle callback of a PLAYING game within the run
EscortFrame(dt) ==
    /\ game.state = PLAYING
    /\ calls < MaxFrames
    /\ \E W \in IdleOutcomes(dt) :
          /\ game' = W.g
          /\ missions' = W.ms
          /\ ev' = W.ev
          /\ hist' = W.h
          /\ calls' = calls + 1

NextEscort == \E dt \in DtEscort : EscortFrame(dt)

\* what every EscortFrame step does to the call counter
EscortCall ==
    /\ game.state = PLAYING
    /\ calls < MaxFrames
    /\ calls' = calls + 1

SpecEscort == InitEscort /\ [][NextEscort]_vars /\ WF_calls(EscortCall)

\* the last handler was idle() and its update() found the game PLAYING
IdleRan == ev.op = "idle" /\ ev.ran

\* the last handler was idle() and its update() ran to its last statement
IdleFull == ev.op = "idle" /\ ev.full

\* the number of enemies of type t destroyed by projectiles in the last update
KillsOf(t) == Cardinality({k \in DOMAIN ev.kills : ev.kills[k].type = t})

SingleTarget(g) ==
    /\ HasMission(g)
    /\ CurrentMission(g).type = ELIMINATION
    /\ "target_type" \in DOMAIN CurrentMission(g).objectives

\* C1: in a single-target ELIMINATION mission, at the end of the update in
\* which a kill brings the target type's counter to target_count the state
\* is MISSION_COMPLETE, the mission is completed and the next one unlocked;
\* while the counter is below target_count the state is not MISSION_COMPLETE.
C1_EliminationCompletes ==
    (IdleRan /\ SingleTarget(game)) =>
        LET m == CurrentMission(game)
            t == m.objectives.target_type
            n == game.mission_kills[t]
        IN /\ (KillsOf(t) > 0 /\ n >= m.objectives.target_count) =>
                 /\ game.state = MISSION_COMPLETE
                 /\ missions.completed[m.id]
                 /\ missions.unlocked[m.id + 1]
           /\ (n < m.objectives.target_count) => game.state # MISSION_COMPLETE

InDefense(g) ==
    HasMission(g) /\ CurrentMission(g).type = DEFENSE /\ ~IsNone(g.defense_base)

\* C2: in a DEFENSE mission the breach counter equals the number of distinct
\* enemies found alive inside the breach radius (each counted once, none
\* left out), and the state is MISSION_FAILED from the update in which that
\* number reaches max_breaches, and not before unless the player died.
C2_BreachesCountDistinctEnemies ==
    InDefense(game) =>
        LET distinct == Cardinality(hist.inside_uids)
            max_breaches == CurrentMission(game).objectives.max_breaches
        IN /\ game.defense_base.breaches = distinct
           /\ (distinct >= max_breaches) => game.state = MISSION_FAILED
           /\ (IdleRan /\ game.state = MISSION_FAILED /\ ~ev.player_died)
                 => (distinct >= max_breaches /\ ev.credited # <<>>)

\* mission 0 is unlocked and an unlocked mission's predecessor is completed
UnlockChain ==
    /\ DOMAIN missions.unlocked = MissionIds
    /\ DOMAIN missions.completed = MissionIds
    /\ missions.unlocked[0]
    /\ \A i \in MissionIds \ {0} : missions.unlocked[i] => missions.completed[i - 1]

\* C3: in every reachable state mission 0 is unlocked and unlocked[i] implies
\* completed[i-1]; an unlocked flag is set only by the update that completes
\* the mission before it; completing the last mission changes no unlocked flag.
C3_UnlockChain ==
    /\ []UnlockChain
    /\ [][\A i \in MissionIds \ {0} :
              (~missions.unlocked[i] /\ missions'.unlocked[i]) =>
                  /\ ev'.op = "idle" /\ ev'.ran /\ ev'.completed
                  /\ game.current_mission.id = i - 1
                  /\ missions'.completed[i - 1]]_vars
    /\ [][(ev'.completed /\ game.current_mission.id = LastMissionId) =>
              missions'.unlocked = missions.unlocked]_vars

C3_Witness ==
    /\ IdleRan /\ ev.completed
    /\ game.current_mission.id = 0
    /\ missions.completed[0] /\ missions.unlocked[1] /\ ~missions.unlocked[2]

\* C4: no handler (start_mission, reset, update, input) takes a completed or
\* an unlocked flag from true back to false.
C4_FlagsOnlyForward ==
    [][\A i \in MissionIds :
          /\ missions.completed[i] => missions'.completed[i]
          /\ missions.unlocked[i] => missions'.unlocked[i]]_vars

C4_Witness ==
    /\ ev.reset
    /\ missions.completed[1] /\ missions.unlocked[2]

\* C5: between resets, no step raises the health of an enemy, of the escort
\* or of the player, and none of them goes from not alive to alive.
C5_NoHealing ==
    [][~ev'.reset =>
          /\ game'.player.health <= game.player.health
          /\ game'.player.alive => game.player.alive
          /\ \A i \in 1..Len(game.enemies), j \in 1..Len(game'.enemies) :
                game.enemies[i].uid = game'.enemies[j].uid =>
                    /\ game'.enemies[j].health <= game.enemies[i].health
                    /\ game'.enemies[j].alive => game.enemies[i].alive
          /\ (~IsNone(game.friendly_aircraft) /\ ~IsNone(game'.friendly_aircraft)) =>
                /\ game'.friendly_aircraft.health <= game.friendly_aircraft.health
                /\ game'.friendly_aircraft.alive => game.friendly_aircraft.alive]_vars

C5_Witness ==
    /\ IdleFull
    /\ ev.escort_hits # <<>>
    /\ ev.kills # <<>>
    /\ ev.body # <<>>
    /\ game.player.health < PLAYER_MAX_HEALTH

\* C6 as stated: after every update of a PLAYING game that follows a kill,
\* the combo is positive exactly while less than 3 s of update time have
\* accumulated since the last kill.
C6_ComboWindow ==
    (IdleRan /\ hist.killed) =>
        (game.combo > 0 <=> hist.since_kill < COMBO_WINDOW)

\* C6 amended: the same for every update that reaches the combo step; an
\* update that ends the mission before that step leaves the combo as it was.
C6_ComboWindowWhenStepRuns ==
    /\ (ev.op = "idle" /\ ev.decayed /\ hist.killed) =>
          (game.combo > 0 <=> hist.since_kill < COMBO_WINDOW)
    /\ (IdleRan /\ ~ev.decayed) => game.combo = ev.combo_start

C6_Witness ==
    /\ ev.op = "idle" /\ ev.decayed /\ hist.killed
    /\ ev.combo_start > 0
    /\ game.combo = 0
    /\ hist.since_kill >= COMBO_WINDOW

\* floor(base * (1 + 0.5 c) * m) with base 100, 200, 300 for scout, jet, bomber
ClaimedPoints(enemy_type, c, is_missile) ==
    LET base == CASE enemy_type = "scout" -> 100
                  [] enemy_type = "jet" -> 200
                  [] enemy_type = "bomber" -> 300
        m == IF is_missile THEN 2 ELSE 1
    IN (base * (10 + 5 * c) * m) \div 10

\* C7: a kill made at combo c adds floor(base * (1 + 0.5 c) * m) to the
\* score (m = 2 for a missile, 1 otherwise), raises the combo to c + 1 and
\* sets the combo timer to 3 s; the update ends with the values of its last
\* kill.
C7_KillScore ==
    IdleRan =>
        /\ \A k \in DOMAIN ev.kills :
              LET r == ev.kills[k]
              IN /\ r.score_after
                      = r.score_before + ClaimedPoints(r.type, r.combo_before, r.is_missile)
                 /\ r.combo_after = r.combo_before + 1
                 /\ r.timer_after = COMBO_WINDOW
        /\ ev.kills # <<>> =>
              LET r == ev.kills[Len(ev.kills)]
              IN /\ game.score = r.score_after
                 /\ game.combo = r.combo_after
                 /\ game.combo_timer = r.timer_after

C7_Witness ==
    /\ IdleRan
    /\ \E k \in DOMAIN ev.kills :
          /\ ev.kills[k].combo_before = 1
          /\ ev.kills[k].is_missile
          /\ ev.kills[k].score_after = ev.kills[k].score_before + 600

\* C8: after a full update, every enemy that touched the player in the
\* body-collision step is dead, whatever its type, size and health (the boss
\* included), and the player lost exactly 30 health (down to 0 at most); with
\* god mode off and the player alive no alive enemy is left in touch; with
\* god mode on the step ran for no enemy.
C8_BodyCollision ==
    IdleFull =>
        /\ \A k \in DOMAIN ev.body :
              LET b == ev.body[k]
              IN /\ \E i \in 1..Len(game.enemies) :
                        game.enemies[i].uid = b.uid /\ ~game.enemies[i].alive
                 /\ b.player_after = Max(0, b.player_before - 30)
        /\ (~game.god_mode /\ game.player.alive) =>
              \A i \in 1..Len(game.enemies) :
                  game.enemies[i].alive =>
                      ~Within(game.enemies[i].position, game.player.position,
                              game.enemies[i].size + 10)
        /\ game.god_mode => ev.body = <<>>

C8_Witness ==
    /\ IdleFull
    /\ \E k \in DOMAIN ev.body :
          /\ ev.body[k].max_health = 400
          /\ ev.body[k].enemy_health > 30
          /\ ev.body[k].player_after = ev.body[k].player_before - 30

\* C9: with god mode on, no update changes the player's health or alive
\* flag, consumes an enemy projectile on the player, or ends the game through
\* the player's death.
C9_GodMode ==
    [][(game.god_mode /\ ev'.op = "idle") =>
          /\ game'.player.health = game.player.health
          /\ game'.player.alive = game.player.alive
          /\ ev'.player_hits = <<>>
          /\ ev'.body = <<>>
          /\ ~ev'.player_died
          /\ game'.state # GAME_OVER]_vars

C9_Witness ==
    /\ IdleFull
    /\ game.god_mode
    /\ game.player.alive
    /\ \E i \in 1..Len(game.enemies) :
          /\ game.enemies[i].alive
          /\ Within(game.enemies[i].position, game.player.position,
                    game.enemies[i].size + 10)
    /\ \E i \in 1..Len(game.projectiles) :
          /\ game.projectiles[i].owner = "enemy" /\ game.projectiles[i].alive
          /\ Within(game.projectiles[i].position, game.player.position, 15)

\* C10: an update called while the state is not PLAYING changes nothing.
C10_UpdateOnlyWhenPlaying ==
    [][(ev'.op = "idle" /\ game.state # PLAYING) =>
          /\ game' = game
          /\ missions' = missions]_vars

C10_Witness ==
    /\ ev.op = "idle" /\ ~ev.ran
    /\ game.state = MISSION_COMPLETE
    /\ game.mission_timer >= 60000

\* C11: when an update's collisions leave the player not alive with god mode
\* off, the update ends in MISSION_FAILED if a mission is active and in
\* GAME_OVER if none is; GAME_OVER never holds with a mission active, and
\* MISSION_FAILED and MISSION_COMPLETE never hold without one.
C11_DeathEndsTheSession ==
    /\ (IdleFull /\ ~game.player.alive /\ ~game.god_mode) =>
          /\ ev.player_died
          /\ game.state = IF HasMission(game) THEN MISSION_FAILED ELSE GAME_OVER
    /\ game.state = GAME_OVER => ~HasMission(game)
    /\ game.state \in {MISSION_FAILED, MISSION_COMPLETE} => HasMission(game)

C11_Witness ==
    /\ IdleFull /\ ev.player_died
    /\ ~HasMission(game)
    /\ game.state = GAME_OVER
    /\ ~game.player.alive /\ ~game.god_mode

\* the transition rule as stated: health first, then the two distances
ClaimedState(health, max_health, dist_sq) ==
    IF 10 * health < 3 * max_health THEN EVADE
    ELSE IF dist_sq < 100 * 100 THEN ATTACK
    ELSE IF dist_sq < 200 * 200 THEN CHASE
    ELSE PATROL

\* C12: after every Enemy.update of an alive enemy, its AI state is the one
\* the transition rule gives for its health and its distance to the player
\* when the update began (EVADE below 30 % health, else ATTACK under 100,
\* else CHASE under 200, else PATROL), whatever its state was before.
C12_StateIsMemoryless ==
    IdleFull =>
        \A k \in DOMAIN ev.ai :
            LET r == ev.ai[k]
            IN r.alive =>
                  /\ r.state_after = ClaimedState(r.health, r.max_health, r.dist_sq)
                  /\ \E i \in 1..Len(game.enemies) :
                        /\ game.enemies[i].uid = r.uid
                        /\ game.enemies[i].state = r.state_after

C12_Witness ==
    /\ IdleFull
    /\ \E k \in DOMAIN ev.ai :
          /\ ev.ai[k].alive
          /\ ev.ai[k].state_before = PATROL
          /\ ev.ai[k].state_after = EVADE
          /\ ev.ai[k].dist_sq >= 200 * 200
    /\ \E k \in DOMAIN ev.ai :
          /\ ev.ai[k].alive
          /\ ev.ai[k].state_after = ATTACK

ClaimedDamage(enemy_type) ==
    CASE enemy_type = "scout" -> 5
      [] enemy_type = "jet" -> 10
      [] enemy_type = "bomber" -> 15

\* C13: Enemy.update emits a projectile exactly when the enemy is alive, its
\* state after the transition is ATTACK and its cooldown after the decrement
\* is 0; the cooldown then becomes fire_cooldown_max / difficulty_multiplier
\* and the projectile is enemy-owned, no missile, with the type's damage;
\* otherwise the cooldown is the decremented one, and it is never negative.
C13_FiringRule ==
    /\ \A i \in 1..Len(game.enemies) : game.enemies[i].fire_cooldown >= 0
    /\ IdleFull =>
          \A k \in DOMAIN ev.ai :
              LET r == ev.ai[k]
                  cooled == Max(0, r.cooldown_before - r.dt)
              IN /\ r.fired <=> (r.alive /\ r.state_after = ATTACK /\ cooled = 0)
                 /\ r.fired =>
                       /\ r.cooldown_after
                            = (r.cooldown_max * 1000) \div r.difficulty_multiplier
                       /\ r.projectile.owner = "enemy"
                       /\ ~r.projectile.is_missile
                       /\ r.projectile.damage = ClaimedDamage(r.type)
                       /\ r.projectile.alive
                 /\ (r.alive /\ ~r.fired) => r.cooldown_after = cooled
                 /\ ~r.alive => r.cooldown_after = r.cooldown_before

C13_Witness ==
    /\ IdleFull
    /\ \E k \in DOMAIN ev.ai :
          /\ ev.ai[k].fired
          /\ ev.ai[k].difficulty_multiplier > 1000
          /\ ev.ai[k].cooldown_before > 0
          /\ ev.ai[k].cooldown_after < ev.ai[k].cooldown_max
    /\ \E k \in DOMAIN ev.ai :
          /\ ~ev.ai[k].fired
          /\ ev.ai[k].state_after = EVADE
          /\ ev.ai[k].cooldown_before = 0


InMission(g, type) == HasMission(g) /\ CurrentMission(g).type = type

\* C14: in a SURVIVAL mission the state becomes MISSION_COMPLETE, with the
\* mission marked completed and the next one unlocked, in the first update of
\* a PLAYING game that brings mission_timer to the duration or beyond, and
\* never while mission_timer is below the duration.
C14_SurvivalCompletesOnTime ==
    InMission(game, SURVIVAL) =>
        LET id == game.current_mission.id
            duration == CurrentMission(game).objectives.duration
        IN /\ game.state = MISSION_COMPLETE =>
                 /\ game.mission_timer >= duration
                 /\ missions.completed[id]
                 /\ missions.unlocked[id + 1]
           /\ IdleRan =>
                 (game.state = MISSION_COMPLETE <=> game.mission_timer >= duration)
           /\ (ev.op = "idle" /\ ev.completed) =>
                 game.mission_timer - ev.dt < duration

C14_Witness ==
    /\ InMission(game, SURVIVAL)
    /\ ev.op = "idle" /\ ev.completed
    /\ game.state = MISSION_COMPLETE
    /\ game.mission_timer > CurrentMission(game).objectives.duration
    /\ calls >= 2


\* C15: in a SURVIVAL mission the state becomes MISSION_FAILED only through
\* an update that runs to its end with the player not alive and god mode off.
C15_SurvivalFailsOnlyByDeath ==
    [][(InMission(game', SURVIVAL)
        /\ game.state # MISSION_FAILED /\ game'.state = MISSION_FAILED) =>
          /\ ev'.op = "idle" /\ ev'.full /\ ev'.player_died
          /\ game.state = PLAYING
          /\ ~game'.player.alive
          /\ ~game'.god_mode]_vars

C15_Witness ==
    /\ InMission(game, SURVIVAL)
    /\ game.state = MISSION_FAILED
    /\ IdleFull /\ ev.player_died
    /\ ~game.player.alive /\ ~game.god_mode
    /\ game.mission_timer < CurrentMission(game).objectives.duration


\* the escort is less than 10 units from its destination
EscortArriving(f) == LengthSq(VSub(f.destination, f.position)) < 10 * 10

\* C16: an ESCORT mission is MISSION_COMPLETE only with the escort alive and
\* less than 10 units from its destination, reached by an update that found
\* it so; an escort whose health is zero never has the mission complete, and
\* the next update of the PLAYING game after its health reached zero ends in
\* MISSION_FAILED.
C16_EscortOutcome ==
    /\ [](InMission(game, ESCORT) =>
            /\ game.state = MISSION_COMPLETE =>
                  /\ game.friendly_aircraft.alive
                  /\ game.friendly_aircraft.health > 0
                  /\ game.friendly_aircraft.reached_destination
                  /\ EscortArriving(game.friendly_aircraft)
            /\ game.friendly_aircraft.health = 0 =>
                  /\ ~game.friendly_aircraft.alive
                  /\ game.state # MISSION_COMPLETE)
    /\ [][InMission(game, ESCORT) =>
            /\ (game.state # MISSION_COMPLETE /\ game'.state = MISSION_COMPLETE) =>
                  /\ ev'.op = "idle" /\ ev'.completed
                  /\ game.friendly_aircraft.alive
                  /\ EscortArriving(game.friendly_aircraft)
            /\ (game.state = PLAYING /\ game.friendly_aircraft.health = 0
                 /\ ev'.op = "idle") =>
                  game'.state = MISSION_FAILED]_vars

C16_Witness ==
    /\ InMission(game, ESCORT)
    /\ game.state = MISSION_FAILED
    /\ ev.op = "idle" /\ ev.ran /\ ~ev.full
    /\ game.player.alive
    /\ game.friendly_aircraft.health = 0
    /\ EscortArriving(game.friendly_aircraft)


\* C17: a DEFENSE mission becomes MISSION_COMPLETE only in an update that
\* finds mission_enemies_spawned at the quota (enemy_waves) and the enemy list
\* empty; mission_enemies_spawned never exceeds the quota; and the breach
\* check comes first: the update of the last breach ends in MISSION_FAILED
\* without spawning or completing, and a completed mission is below
\* max_breaches.
C17_DefenseCompletes ==
    /\ [](InMission(game, DEFENSE) =>
            LET o == CurrentMission(game).objectives
            IN /\ game.mission_enemies_spawned <= o.enemy_waves
               /\ game.state = MISSION_COMPLETE =>
                     /\ game.mission_enemies_spawned >= o.enemy_waves
                     /\ Len(game.enemies) = 0
                     /\ game.defense_base.breaches < o.max_breaches)
    /\ [][InMission(game, DEFENSE) =>
            LET o == CurrentMission(game).objectives
            IN /\ (game.state # MISSION_COMPLETE /\ game'.state = MISSION_COMPLETE) =>
                     /\ ev'.op = "idle" /\ ev'.completed
                     /\ game.mission_enemies_spawned >= o.enemy_waves
                     /\ Len(game.enemies) = 0
               /\ (ev'.op = "idle" /\ ev'.ran
                    /\ game'.defense_base.breaches >= o.max_breaches) =>
                     /\ game'.state = MISSION_FAILED
                     /\ ~ev'.completed
                     /\ ev'.spawned = <<>>
                     /\ game'.mission_enemies_spawned = game.mission_enemies_spawned
                     /\ game'.enemy_spawn_timer = game.enemy_spawn_timer]_vars

C17_Witness ==
    /\ InMission(game, DEFENSE)
    /\ ev.op = "idle" /\ ev.completed
    /\ game.state = MISSION_COMPLETE
    /\ game.mission_enemies_spawned = CurrentMission(game).objectives.enemy_waves
    /\ Len(game.enemies) = 0


\* the enemies of a BOSS mission are the boss alone, as start_mission made it
OnlyTheBoss(g) ==
    /\ ~IsNone(g.boss_enemy)
    /\ Len(g.enemies) <= 1
    /\ \A i \in 1..Len(g.enemies) :
          /\ g.enemies[i].addr = g.boss_enemy.addr
          /\ g.enemies[i].max_health = CurrentMission(g).objectives.boss_health
          /\ g.enemies[i].health <= g.enemies[i].max_health

\* C18: in a BOSS mission the boss is the only enemy ever spawned, its
\* max_health is boss_health, and at the end of every update the state is
\* MISSION_COMPLETE exactly when the boss is not alive.
C18_BossOutcome ==
    InMission(game, BOSS) =>
        /\ OnlyTheBoss(game)
        /\ ev.spawned = <<>>
        /\ IdleRan => (game.state = MISSION_COMPLETE <=> ~BossAlive(game))

MultiTarget(g) ==
    /\ InMission(g, ELIMINATION)
    /\ "targets" \in DOMAIN CurrentMission(g).objectives

\* every required type has its required number of kills
AllTargetsMet(g) ==
    \A k \in 1..Len(CurrentMission(g).objectives.targets) :
        LET t == CurrentMission(g).objectives.targets[k]
        IN g.mission_kills[t.etype] >= t.count

\* C19: in a multi-target ELIMINATION mission, at the end of the update whose
\* kill brings the last counter to its required count the state is
\* MISSION_COMPLETE; while some counter is below its count the state is not
\* MISSION_COMPLETE.
C19_MultiTargetCompletes ==
    (IdleRan /\ MultiTarget(game)) =>
        /\ (ev.kills # <<>> /\ AllTargetsMet(game)) => game.state = MISSION_COMPLETE
        /\ ~AllTargetsMet(game) => game.state # MISSION_COMPLETE

\* C20: the health of every enemy is between 0 and its max_health.
C20_EnemyHealthInRange ==
    \A i \in 1..Len(game.enemies) :
        /\ 0 <= game.enemies[i].health
        /\ game.enemies[i].health <= game.enemies[i].max_health


Dot(a, b) == a.x * b.x + a.y * b.y + a.z * b.z

\* the Projectile.update call of record r steered: a player missile within its
\* lifetime that was given an alive enemy
Steered(r) ==
    /\ r.before.is_missile /\ r.before.owner = "player"
    /\ r.before.lifetime + r.dt <= PROJECTILE_MAX_LIFETIME
    /\ \E k \in 1..Len(r.enemies) : r.enemies[k].alive

\* the unit vector (in thousandths) from the projectile of record r to the
\* alive enemy nearest to it
ToTarget(r) ==
    Normalize(VSub(r.enemies[Nearest(r.enemies, r.before.position)].position,
                   r.before.position))

\* the nearest alive enemy of record r is at a right angle to the missile's
\* direction
RightAngleGap(r) == Steered(r) /\ Dot(r.before.direction, ToTarget(r)) = 0

\* C21 as stated: with the target at a right angle, one Projectile.update
\* turns the missile by 15 % of the gap, 13.5 degrees: the tangent of the turn
\* (component toward the target over component along the old direction) is
\* tan 13.5 = 0.240, within 0.002.
C21_TurnsFifteenPercentOfGap ==
    IdleFull =>
        \A k \in DOMAIN ev.proj :
            LET r == ev.proj[k]
                along == Dot(r.after.direction, r.before.direction)
                toward == Dot(r.after.direction, ToTarget(r))
            IN RightAngleGap(r) =>
                  /\ 238 * along <= 1000 * toward
                  /\ 1000 * toward <= 242 * along

\* C21 amended: with the target at a right angle, the new direction is the
\* normalised blend 0.85 * current + 0.15 * to_target: its components toward
\* the target and along the old direction are in the ratio 15 : 85 (up to the
\* rounding of the unit vectors), which is a turn of atan(15/85), about 10
\* degrees: tangent between 0.170 and 0.182.
C21_TurnsByBlend ==
    IdleFull =>
        \A k \in DOMAIN ev.proj :
            LET r == ev.proj[k]
                along == Dot(r.after.direction, r.before.direction)
                toward == Dot(r.after.direction, ToTarget(r))
            IN RightAngleGap(r) =>
                  /\ Abs(85 * toward - 15 * along) <= (85 + 15) * 1000
                  /\ 170 * along <= 1000 * toward
                  /\ 1000 * toward <= 182 * along
                  /\ along > 0 /\ toward > 0

C21_Witness ==
    /\ IdleFull
    /\ \E k \in DOMAIN ev.proj :
          /\ RightAngleGap(ev.proj[k])
          /\ ev.proj[k].before.direction = Vector3(0, 0, 1000)
          /\ ToTarget(ev.proj[k]) = Vector3(1000, 0, 0)
          /\ ev.proj[k].after.alive


\* enemy j was alive when check_collisions tested projectile i against it:
\* alive when the pass began and not destroyed by an earlier projectile
AliveFor(j, i) ==
    /\ ev.pass.enemies[j].alive
    /\ \A k \in DOMAIN ev.hits :
          (ev.hits[k].proj < i /\ ev.hits[k].enemy = j) => ~ev.hits[k].lethal

\* projectile i, where the projectile step left it, is within enemy j's size
InRange(i, j) ==
    Within(ev.pass.projectiles[i].position, ev.pass.enemies[j].position,
           ev.pass.enemies[j].size)

RECURSIVE HitDamage(_, _)
\* the damage of the hits on enemy j among the first n hit records
HitDamage(j, n) ==
    IF n = 0 THEN 0
    ELSE HitDamage(j, n - 1) + (IF ev.hits[n].enemy = j THEN ev.hits[n].damage ELSE 0)

\* C22: in one collision pass a live player-owned projectile damages at most
\* one enemy, the first in list order that is alive and within its size of
\* the projectile; the projectile is then consumed and shots_hit grows by one
\* per such projectile; no other enemy loses health to it, and projectiles
\* that are not alive or not the player's hit no enemy.
C22_OneEnemyPerProjectile ==
    IdleFull =>
        /\ Len(game.projectiles) = Len(ev.pass.projectiles)
        /\ Len(game.enemies) = Len(ev.pass.enemies)
        /\ game.shots_hit = ev.pass.shots_hit + Len(ev.hits)
        /\ \A i \in 1..Len(ev.pass.projectiles) :
              LET p == ev.pass.projectiles[i]
                  H == {k \in DOMAIN ev.hits : ev.hits[k].proj = i}
                  R == {j \in 1..Len(ev.pass.enemies) : AliveFor(j, i) /\ InRange(i, j)}
              IN /\ Cardinality(H) <= 1
                 /\ (H # {}) <=> (p.alive /\ p.owner = "player" /\ R # {})
                 /\ \A k \in H :
                       /\ ev.hits[k].enemy \in R
                       /\ \A j \in R : ev.hits[k].enemy <= j
                       /\ ev.hits[k].damage = p.damage
                       /\ ~game.projectiles[i].alive
                 /\ (H = {} /\ p.owner = "player") => game.projectiles[i].alive = p.alive
        /\ \A j \in 1..Len(ev.pass.enemies) :
              ev.pass.enemies[j].health - game.enemies[j].health
                = HitDamage(j, Len(ev.hits))
                  + (IF \E b \in DOMAIN ev.body : ev.body[b].uid = ev.pass.enemies[j].uid
                     THEN ev.pass.enemies[j].max_health ELSE 0)

C22_Witness ==
    /\ IdleFull
    /\ Len(ev.hits) = 2
    /\ ev.hits[1].enemy = 1 /\ ev.hits[1].lethal
    /\ ev.hits[2].enemy = 2 /\ InRange(2, 1)
    /\ DistanceSq(ev.pass.projectiles[1].position, ev.pass.enemies[2].position)
         < DistanceSq(ev.pass.projectiles[1].position, ev.pass.enemies[1].position)
    /\ game.enemies[2].health = game.enemies[2].max_health - ev.hits[2].damage


\* the explosions check_collisions appended in the last update
NewExplosions ==
    SubSeq(game.explosions, ev.pass.explosions + 1, Len(game.explosions))

\* C23: every enemy death produces exactly one explosion over the enemy's
\* life: no enemy is the source of two explosions; in each collision pass the
\* explosions appended are one per enemy killed by a projectile, one per enemy
\* destroyed by body collision (and one per lethal hit on the player or the
\* escort), each enemy's at its position; a hit that leaves the enemy alive
\* appends none, and a killed enemy is not collided with afterwards.
C23_OneExplosionPerEnemy ==
    /\ \A a, b \in DOMAIN hist.blasts : hist.blasts[a] = hist.blasts[b] => a = b
    /\ IdleFull =>
          /\ Len(NewExplosions)
               = Len(ev.kills) + Len(ev.body)
                 + Cardinality({k \in DOMAIN ev.player_hits : ev.player_hits[k].exploded})
                 + Cardinality({k \in DOMAIN ev.escort_hits : ev.escort_hits[k].exploded})
          /\ Len(ev.kills) = Cardinality({k \in DOMAIN ev.hits : ev.hits[k].lethal})
          /\ \A k \in DOMAIN ev.hits :
                ev.hits[k].lethal <=> ~game.enemies[ev.hits[k].enemy].alive
          /\ \A k \in DOMAIN ev.kills : \A b \in DOMAIN ev.body :
                ev.kills[k].uid # ev.body[b].uid
          /\ \A j \in 1..Len(game.enemies) :
                LET e == game.enemies[j]
                    died == ev.pass.enemies[j].alive /\ ~e.alive
                    mine == {x \in DOMAIN NewExplosions :
                                /\ NewExplosions[x].position = e.position
                                /\ NewExplosions[x].age = 0}
                IN /\ died => mine # {}
                   /\ died <=> (\/ \E k \in DOMAIN ev.kills : ev.kills[k].uid = e.uid
                                \/ \E b \in DOMAIN ev.body : ev.body[b].uid = e.uid)

C23_Witness ==
    /\ IdleFull
    /\ Len(ev.kills) = 1 /\ Len(ev.body) = 1
    /\ \E k \in DOMAIN ev.hits : ~ev.hits[k].lethal
    /\ Len(NewExplosions) = 2
    /\ Len(hist.blasts) = 2


\* the bounds Enemy.update keeps an enemy in
InEnemyBounds(p) ==
    /\ Abs(p.x) <= 500 /\ Abs(p.z) <= 500
    /\ 20 <= p.y /\ p.y <= 380

\* C24: every enemy is inside the world bounds (|x| <= 500, |z| <= 500,
\* 20 <= y <= 380) in every state, and so is every enemy before and after each
\* Enemy.update, a newly spawned one included.
C24_EnemiesInsideWorld ==
    /\ \A i \in 1..Len(game.enemies) : InEnemyBounds(game.enemies[i].position)
    /\ \A k \in DOMAIN ev.ai :
          /\ InEnemyBounds(ev.ai[k].position_before)
          /\ InEnemyBounds(ev.ai[k].position_after)

C24_Witness ==
    /\ IdleFull
    /\ \E k \in DOMAIN ev.ai :
          /\ ev.ai[k].alive
          /\ ev.ai[k].state_after = EVADE
          /\ ev.ai[k].difficulty_multiplier > 1000
          /\ ev.ai[k].position_before.z < 500
          /\ ev.ai[k].position_after.z = 500
    /\ \E k \in DOMAIN ev.ai : ev.ai[k].uid \in {ev.spawned[s] : s \in DOMAIN ev.spawned}


\* the bounds and the age Projectile.update lets a projectile live in
InFlight(p) ==
    /\ p.lifetime <= 5000
    /\ Abs(p.position.x) <= 500 /\ Abs(p.position.z) <= 500
    /\ 0 <= p.position.y /\ p.position.y <= 400

\* names for the projectile objects of a flight: those of the scene and as
\* many again for the shots the enemies fire during it
FlightPids == 1..(2 * Len(SceneProjectiles))

\* the projectile object named id is in the collection
Flying(id) == \E i \in DOMAIN hist.pids : hist.pids[i] = id

\* C25: after every update of a PLAYING game that reaches the projectile
\* step, no projectile in the collection is older than 5 s or outside the
\* world bounds; and while the game keeps being updated in PLAYING, every
\* projectile is eventually removed from the collection (here: every
\* projectile in flight while more than 5 s of the capped play time remain).
C25_ProjectilesExpire ==
    /\ [](IdleFull => \A i \in 1..Len(game.projectiles) : InFlight(game.projectiles[i]))
    /\ \A id \in FlightPids :
          (Flying(id) /\ game.game_time + PROJECTILE_MAX_LIFETIME < MaxPlay)
             ~> (~Flying(id) \/ game.state # PLAYING)

C25_Witness ==
    /\ IdleFull /\ game.state = PLAYING
    /\ \A id \in 1..Len(SceneProjectiles) : ~Flying(id)
    /\ \E k \in DOMAIN ev.proj :
          /\ ev.proj[k].before.lifetime <= PROJECTILE_MAX_LIFETIME
          /\ ev.proj[k].after.lifetime > PROJECTILE_MAX_LIFETIME
          /\ ~ev.proj[k].after.alive
          /\ ~OutOfWorld(ev.proj[k].after.position)


\* enemy t of record r is alive, no alive enemy is nearer to the projectile,
\* and every alive enemy before it in the list is farther
FirstNearest(r, t) ==
    /\ r.enemies[t].alive
    /\ \A j \in 1..Len(r.enemies) :
          r.enemies[j].alive =>
             /\ DistanceSq(r.before.position, r.enemies[j].position)
                   >= DistanceSq(r.before.position, r.enemies[t].position)
             /\ (j < t => DistanceSq(r.before.position, r.enemies[j].position)
                            > DistanceSq(r.before.position, r.enemies[t].position))

\* C26: a Projectile.update changes the direction only of a player missile
\* that was given an alive enemy, and then to the blend of its direction with
\* the direction to the nearest alive enemy, the first in list order on a tie;
\* bullets, enemy projectiles and a player missile with no alive enemy keep
\* their direction.
C26_OnlyPlayerMissilesSteer ==
    IdleFull =>
        \A k \in DOMAIN ev.proj :
            LET r == ev.proj[k]
            IN /\ ~Steered(r) => r.after.direction = r.before.direction
               /\ Steered(r) =>
                     \E t \in 1..Len(r.enemies) :
                        /\ FirstNearest(r, t)
                        /\ r.after.direction =
                              Normalize(VAdd(VScale(r.before.direction, 85, 100),
                                             VScale(Normalize(VSub(r.enemies[t].position,
                                                                   r.before.position)),
                                                    15, 100)))

\* a tie: a player missile with two alive enemies at the same distance turns
\* toward the first, while the bullets and the enemy's shots fly straight on
C26_Witness ==
    /\ IdleFull
    /\ \E k \in DOMAIN ev.proj :
          LET r == ev.proj[k]
          IN /\ Steered(r) /\ Len(r.enemies) = 2
             /\ DistanceSq(r.before.position, r.enemies[1].position)
                   = DistanceSq(r.before.position, r.enemies[2].position)
             /\ r.enemies[1].position # r.enemies[2].position
             /\ r.after.direction # r.before.direction
             /\ FirstNearest(r, 1)
    /\ \E k \in DOMAIN ev.proj :
          ~ev.proj[k].before.is_missile /\ ev.proj[k].before.owner = "player"
             /\ ev.proj[k].after.position # ev.proj[k].before.position
    /\ \E k \in DOMAIN ev.proj :
          ev.proj[k].before.owner = "enemy" /\ ev.proj[k].after.alive


\* the cap the claim gives for the mode of g
ModeCap(g) ==
    CASE ~HasMission(g) -> 15
      [] InMission(g, ELIMINATION) -> IF MultiTarget(g) THEN 8 ELSE 5
      [] InMission(g, SURVIVAL) -> 10
      [] InMission(g, ESCORT) -> 6
      [] InMission(g, DEFENSE) -> 5
      [] OTHER -> 1

\* timer (ms) exceeds the spawn interval of the mode of g: 3 s divided by the
\* difficulty in free play, 1.5 s in SURVIVAL, 3 s otherwise
ExceedsInterval(timer, g) ==
    CASE ~HasMission(g) -> timer * g.difficulty_multiplier > 3000 * 1000
      [] InMission(g, SURVIVAL) -> timer > 1500
      [] OTHER -> timer > 3000

\* C27: an update spawns at most one enemy, and only when the spawn timer
\* (with this update's dt added) exceeds the interval of the mode, and then
\* leaves the timer at zero; the enemy collection never holds more than the
\* cap of the current mode.
C27_SpawnCaps ==
    [][/\ Len(game'.enemies) <= ModeCap(game')
       /\ ev'.op = "idle" =>
             /\ Len(ev'.spawned) <= 1
             /\ Len(game'.enemies) <= Len(game.enemies) + 1
             /\ Len(ev'.spawned) = 1 =>
                   /\ ExceedsInterval(game.enemy_spawn_timer + ev'.dt, game')
                   /\ game'.enemy_spawn_timer = 0]_vars

\* free play: the update that spawns the fifteenth enemy
C27_Witness ==
    /\ ev.op = "idle" /\ ~HasMission(game)
    /\ Len(ev.spawned) = 1
    /\ Len(game.enemies) = 15
    /\ game.enemy_spawn_timer = 0


\* what reset leaves, but for the enemy collection and the mission objects
FreshSession(g) ==
    /\ g.projectiles = <<>> /\ g.explosions = <<>>
    /\ g.score = 0 /\ g.combo = 0 /\ g.combo_timer = 0
    /\ g.shots_fired = 0 /\ g.shots_hit = 0
    /\ g.game_time = 0 /\ g.enemy_spawn_timer = 0 /\ g.mission_timer = 0
    /\ \A t \in EnemyTypes : g.mission_kills[t] = 0
    /\ g.mission_enemies_spawned = 0
    /\ g.difficulty_multiplier = 1000
    /\ g.player.health = 100 /\ g.player.alive /\ g.player = PlayerAircraft
    /\ g.breached_enemies = {}
    /\ g.state = PLAYING

\* the mission-specific object of the active mission of g is in place, and
\* nothing else of the kind
MissionObject(g) ==
    LET mission == CurrentMission(g)
    IN /\ IF mission.type = ESCORT
          THEN /\ ~IsNone(g.friendly_aircraft)
               /\ g.friendly_aircraft.health = mission.objectives.escort_health
               /\ g.friendly_aircraft.max_health = mission.objectives.escort_health
               /\ g.friendly_aircraft.speed = mission.objectives.escort_speed
               /\ g.friendly_aircraft.position = Vector3(-400, 100, 0)
               /\ g.friendly_aircraft.alive
          ELSE IsNone(g.friendly_aircraft)
       /\ IF mission.type = DEFENSE
          THEN ~IsNone(g.defense_base) /\ g.defense_base.breaches = 0
          ELSE IsNone(g.defense_base)
       /\ IF mission.type = BOSS
          THEN /\ Len(g.enemies) = 1
               /\ g.boss_enemy.addr = g.enemies[1].addr
               /\ g.enemies[1].type = mission.objectives.boss_type
               /\ g.enemies[1].health = mission.objectives.boss_health
               /\ g.enemies[1].max_health = mission.objectives.boss_health
               /\ g.enemies[1].alive
          ELSE IsNone(g.boss_enemy) /\ g.enemies = <<>>

\* C28: right after reset() the collections are empty, the counters and
\* timers are zero, the difficulty is 1.0, the player is a fresh aircraft, the
\* escort, the base, the boss and the breached set are cleared and the state
\* is PLAYING; right after start_mission(m) the same holds, except that the
\* mission-specific object of m is in place (the escort, the base, or the boss,
\* which is also the one element of the enemy collection) and m is the
\* active mission.
C28_ResetPostcondition ==
    /\ ev.op = "reset" =>
          /\ FreshSession(game)
          /\ game.enemies = <<>>
          /\ IsNone(game.friendly_aircraft) /\ IsNone(game.defense_base)
          /\ IsNone(game.boss_enemy)
    /\ ev.op = "start_mission" =>
          /\ FreshSession(game)
          /\ HasMission(game)
          /\ MissionObject(game)

\* reset() called once mission 0 was completed in the session: the catalog
\* remembers it, the session does not
C28_Witness ==
    /\ ev.op = "reset"
    /\ missions.completed[0]
    /\ HasMission(game) /\ game.current_mission.id = 0
    /\ FreshSession(game)


\* the enemy object uid is in the collection of g
InCollection(g, uid) == \E j \in 1..Len(g.enemies) : g.enemies[j].uid = uid

\* the handler just run neither updated nor hit the enemy object uid, and it
\* fired nothing
LeftAlone(e, uid) ==
    /\ \A k \in DOMAIN e.ai :
          e.ai[k].uid = uid =>
             /\ ~e.ai[k].fired
             /\ e.ai[k].position_after = e.ai[k].position_before
             /\ e.ai[k].state_after = e.ai[k].state_before
             /\ e.ai[k].cooldown_after = e.ai[k].cooldown_before
    /\ \A k \in DOMAIN e.hits : e.pass.enemies[e.hits[k].enemy].uid # uid
    /\ \A k \in DOMAIN e.kills : e.kills[k].uid # uid
    /\ \A k \in DOMAIN e.body : e.body[k].uid # uid

\* C29 as stated: an enemy that is in the collection and not alive when an
\* update of a PLAYING game begins is no longer in the collection when that
\* update ends, and that update neither updates it, nor lets it fire, nor
\* hits it; check_collisions is called on alive enemies only.
C29_DeadEnemyGoneAfterNextUpdate ==
    [][(ev'.op = "idle" /\ ev'.ran) =>
          /\ \A i \in 1..Len(game.enemies) :
                ~game.enemies[i].alive =>
                   /\ ~InCollection(game', game.enemies[i].uid)
                   /\ LeftAlone(ev', game.enemies[i].uid)
          /\ ev'.full =>
                \A j \in 1..Len(ev'.pass.enemies) : ev'.pass.enemies[j].alive]_vars

\* C29 amended: an enemy that is not alive when an update of a PLAYING game
\* begins is removed by that update if the update reaches its enemy step; an
\* update that ends the mission before that step (escort arrived or lost,
\* third breach, survival time reached, DEFENSE or BOSS completed) returns
\* with the enemy still in the collection.  In either case the update neither
\* updates it, nor lets it fire, nor hits it, and right after the enemy step
\* every enemy in the collection is alive.
C29_DeadEnemyGoneAfterEnemyStep ==
    [][(ev'.op = "idle" /\ ev'.ran) =>
          /\ \A i \in 1..Len(game.enemies) :
                ~game.enemies[i].alive =>
                   /\ ev'.full => ~InCollection(game', game.enemies[i].uid)
                   /\ ~ev'.full =>
                         /\ InCollection(game', game.enemies[i].uid)
                         /\ game'.state # PLAYING
                   /\ LeftAlone(ev', game.enemies[i].uid)
          /\ ev'.full =>
                \A j \in 1..Len(ev'.pass.enemies) : ev'.pass.enemies[j].alive]_vars

\* an update that reached check_collisions and, in its enemy step, dropped an
\* enemy killed earlier in the session while updating another one
C29_Witness ==
    /\ IdleFull
    /\ \E k \in DOMAIN ev.ai : ~ev.ai[k].alive /\ ~InCollection(game, ev.ai[k].uid)
    /\ \E k \in DOMAIN ev.ai : ev.ai[k].alive /\ InCollection(game, ev.ai[k].uid)


\* C30: an update that sets the completed flag of the active mission ends in
\* MISSION_COMPLETE, never in MISSION_FAILED, even when the completing kill
\* and the player's death happen in the same collision pass.
C30_CompletingUpdateEndsComplete ==
    (ev.op = "idle" /\ ev.completed) =>
        /\ missions.completed[game.current_mission.id]
        /\ game.state = MISSION_COMPLETE


\* the unlocked missions are 0..k for some k
UnlockedPrefix ==
    \A i \in MissionIds \ {0} : missions.unlocked[i] => missions.unlocked[i - 1]

\* C31: the active mission is always unlocked, every completed mission is
\* unlocked, and the unlocked missions form a contiguous prefix 0..k of the
\* catalog, whatever missions start_mission is called with.
C31_OnlyUnlockedMissionsInPlay ==
    /\ HasMission(game) => missions.unlocked[game.current_mission.id]
    /\ \A i \in MissionIds : missions.completed[i] => missions.unlocked[i]
    /\ UnlockedPrefix


\* C32: whenever the state is PLAYING with an active mission, the mission's
\* special object exists: the escort of an ESCORT mission, the base of a
\* DEFENSE mission, the boss of a BOSS mission; reset() included.
C32_MissionObjectExists ==
    (game.state = PLAYING /\ HasMission(game)) =>
        LET type == CurrentMission(game).type
        IN /\ type = ESCORT => ~IsNone(game.friendly_aircraft)
           /\ type = DEFENSE => ~IsNone(game.defense_base)
           /\ type = BOSS => ~IsNone(game.boss_enemy)


\* the handler that led to the state was an idle tick that fired the gun
GunFired == ev.op = "idle" /\ ev.gun

\* C33: an idle tick fires the machine gun only if the left button is held
\* at that tick, and whenever the state is PLAYING the flag idle() polls
\* equals the real state of the button, pause/resume and restart included.
C33_GunFollowsButton ==
    /\ GunFired => hist.left_held
    /\ game.state = PLAYING => (game.mouse_left = hist.left_held)


\* the state keyboard(k) would leave, were k pressed now
AfterKey(k) == keyboard(World("input", 0), k).g.state

\* C34: from each of GAME_OVER, MISSION_FAILED and MISSION_COMPLETE some key
\* leads back to PLAYING or to a menu state, and the pause key moves only
\* between PLAYING and PAUSED.
C34_NoDeadEndForInput ==
    /\ game.state \in {GAME_OVER, MISSION_FAILED, MISSION_COMPLETE} =>
          \E k \in Keys :
              AfterKey(k) \in {PLAYING, MENU, MISSION_SELECT, MISSION_BRIEFING}
    /\ AfterKey("esc") # game.state =>
          {game.state, AfterKey("esc")} = {PLAYING, PAUSED}


\* the names of the projectiles that dealt damage in the handler that led to
\* the state e belongs to, one entry per hit
HitPids(e) ==
    [k \in DOMAIN e.hits |-> e.hits[k].pid]
        \o [k \in DOMAIN e.player_hits |-> e.player_hits[k].pid]
        \o [k \in DOMAIN e.escort_hits |-> e.escort_hits[k].pid]

\* C35: a projectile deals damage at most once in its life: no projectile
\* hits twice in one collision pass (enemy, player and escort loops
\* together), none that was consumed in an earlier update hits again, and
\* the next projectile step removes every consumed projectile.
C35_ProjectileDamagesOnce ==
    /\ [](\A a, b \in DOMAIN HitPids(ev) : HitPids(ev)[a] = HitPids(ev)[b] => a = b)
    /\ [][\A k \in DOMAIN HitPids(ev') : HitPids(ev')[k] \notin hist.spent]_vars
    /\ [][ev'.full => \A i \in DOMAIN hist'.pids : hist'.pids[i] \notin hist.spent]_vars
    /\ [](\A i \in DOMAIN game.projectiles :
             ~game.projectiles[i].alive => hist.pids[i] \in hist.spent)

\* two enemy bullets reached the player and the escort together: both hit
\* the player, and the escort, alive and within 10 units of them, took none
C35_Witness ==
    /\ IdleFull
    /\ Len(ev.player_hits) = 2 /\ ev.escort_hits = <<>>
    /\ game.friendly_aircraft.alive
    /\ \E i \in DOMAIN game.projectiles :
          /\ hist.pids[i] = ev.player_hits[1].pid
          /\ ~game.projectiles[i].alive
          /\ Within(game.projectiles[i].position, game.player.position, 15)
          /\ Within(game.projectiles[i].position, game.friendly_aircraft.position, 10)


\* an ESCORT mission is being played and both aircraft are alive
EscortFlying ==
    /\ game.state = PLAYING
    /\ InMission(game, ESCORT)
    /\ game.friendly_aircraft.alive
    /\ game.player.alive

\* the escort 16 units short of its destination or 24 units past it
OnOrbit(f) == f.position.y = 100 /\ f.position.z = 0 /\ f.position.x \in {384, 424}

\* why the flight of C38 need never end: a 1000 ms update of a flight whose
\* escort is on the orbit leaves it on the orbit, not arrived, and, unless
\* an aircraft died, leaves the game PLAYING
EscortOrbitClosed ==
    [][(EscortFlying /\ OnOrbit(game.friendly_aircraft) /\ ev'.dt = 1000) =>
          /\ OnOrbit(game'.friendly_aircraft)
          /\ game'.friendly_aircraft.position # game.friendly_aircraft.position
          /\ ~game'.friendly_aircraft.reached_destination
          /\ (game'.friendly_aircraft.alive /\ game'.player.alive) => game'.state = PLAYING]_vars

OneDeath(hits) ==
    /\ \A k \in DOMAIN hits : hits[k].was_alive
    /\ Cardinality({k \in DOMAIN hits : hits[k].exploded}) <= 1

\* C39: in one collision pass the death of the player, and likewise of the
\* escort, adds exactly one explosion: the enemy projectiles processed after
\* the lethal hit neither damage the dead target nor add explosions.
C39_OneExplosionPerDeath ==
    /\ OneDeath(ev.player_hits)
    /\ OneDeath(ev.escort_hits)


\* the projectiles the enemies fired in the handler e describes
EnemyShots(e) == Cardinality({k \in DOMAIN e.ai : e.ai[k].fired})

\* the handler e describes called reset(), directly or through start_mission
DidReset(e) == e.reset /\ e.op # "init"

\* C36: shots_hit <= shots_fired in every reachable state; shots_fired grows
\* by one exactly when a fire call of the player yields a projectile, which is
\* then appended to the collection, and nothing is appended or counted when
\* it yields none; shots_hit grows by one per player projectile consumed by
\* an enemy; reset zeroes both counters and empties the collection.
C36_ShotCounters ==
    /\ [](game.shots_hit <= game.shots_fired)
    /\ [][~DidReset(ev') =>
            /\ game'.shots_fired =
                   game.shots_fired + (hist'.next_pid - hist.next_pid) - EnemyShots(ev')
            /\ game'.shots_hit = game.shots_hit + Len(ev'.hits)
            /\ ev'.op = "idle" => (ev'.gun <=> game'.shots_fired = game.shots_fired + 1)
            /\ ev'.op = "input" =>
                  IF game'.shots_fired = game.shots_fired
                  THEN game'.projectiles = game.projectiles
                  ELSE /\ game'.shots_fired = game.shots_fired + 1
                       /\ Len(game'.projectiles) = Len(game.projectiles) + 1
                       /\ SubSeq(game'.projectiles, 1, Len(game.projectiles)) = game.projectiles
                       /\ game'.projectiles[Len(game'.projectiles)].owner = "player"]_vars
    /\ [](DidReset(ev) =>
            game.shots_fired = 0 /\ game.shots_hit = 0 /\ game.projectiles = <<>>)

\* an idle tick in which the gun fired and the bullet was consumed by the
\* enemy ahead: the only shot of the session, and a hit
C36_Witness ==
    /\ GunFired
    /\ Len(ev.hits) = 1
    /\ game.shots_fired = 1 /\ game.shots_hit = 1


\* C37: between handlers, a game that is PLAYING or PAUSED has a living
\* player, so no update ever simulates a dead one, whatever the order of
\* god-mode toggles, pauses and updates.
C37_NoDeadPlayerInPlay ==
    /\ [](game.state \in {PLAYING, PAUSED} => game.player.alive)
    /\ [][(ev'.op = "idle" /\ ev'.ran) => game.player.alive]_vars

\* the third handler of a run is an update in which the player died, god mode
\* being off by then: the session is over at once
C37_Witness ==
    /\ IdleFull /\ ev.player_died /\ calls = 3
    /\ ~game.player.alive /\ ~game.god_mode
    /\ game.state \in {GAME_OVER, MISSION_FAILED}


\* C40 as stated: outside a reset, the score, the combo count, the combo
\* timer and the mission kill counters change only in a handler in which a
\* player projectile killed an enemy (a body collision changes none of them),
\* and the score never decreases.
C40_OnlyProjectileKillsChangeScore ==
    [][~DidReset(ev') =>
          /\ (\/ game'.score # game.score
              \/ game'.combo # game.combo
              \/ game'.combo_timer # game.combo_timer
              \/ game'.mission_kills # game.mission_kills) => ev'.kills # <<>>
          /\ game'.score >= game.score]_vars

\* the kills of type t the handler e describes made by projectile
ProjectileKills(e, t) == Cardinality({k \in DOMAIN e.kills : e.kills[k].type = t})

\* C40, amended: outside a reset, the score and the mission kill counters
\* change only through projectile kills (each counter by the number of such
\* kills of its type, and only in a mission), the score never decreases, and
\* in a handler without a projectile kill the combo count and the combo timer
\* can only run down: the timer by the update's dt while a combo is running,
\* the count to 0 when the timer runs out.  Enemies destroyed by body
\* collision add nothing.
C40_ProjectileKillsAloneAddScore ==
    [][~DidReset(ev') =>
          /\ game'.score >= game.score
          /\ \A t \in EnemyTypes :
                game'.mission_kills[t] =
                    game.mission_kills[t]
                        + (IF HasMission(game) THEN ProjectileKills(ev', t) ELSE 0)
          /\ ev'.kills = <<>> =>
                /\ game'.score = game.score
                /\ game'.combo \in {game.combo, 0}
                /\ game'.combo_timer \in
                       {game.combo_timer,
                        IF game.combo > 0 THEN game.combo_timer - ev'.dt
                        ELSE game.combo_timer}
                /\ game'.combo = game.combo =>
                       (game'.combo_timer > 0 \/ game.combo = 0)]_vars

\* single-target ELIMINATION: in one update a bullet kills an enemy of the
\* target type and the player rams another one; the score, the combo and the
\* kill counters end where the bullet's kill left them
C40_Witness ==
    /\ IdleFull
    /\ SingleTarget(game)
    /\ Len(ev.kills) = 1
    /\ \E k \in DOMAIN ev.body :
          ev.body[k].type = CurrentMission(game).objectives.target_type
    /\ game.mission_kills = ev.kills[1].kills_after
    /\ game.score = ev.kills[1].score_after
    /\ game.combo = ev.kills[1].combo_after

====
